---- MODULE Spec2Model ----
(***************************************************************************)
(* A model of the NutriAi ml-backend recommender:                          *)
(*   recommender/nutrition_engine.py  macro target calculator              *)
(*   recommender/bandit.py            LinUCB bandit store                  *)
(*   recommender/meal_recommender.py  candidate filter and weekly planner  *)
(*   app/routes.py                    the async handlers around them       *)
(*                                                                         *)
(* Numbers.  Python floats are modelled as fixed-point integers:           *)
(*   kcal and grams of MacroTargets       in tenths (the code rounds to 1  *)
(*                                        decimal place),                  *)
(*   per-meal targets                     in thousandths,                  *)
(*   intermediate calories                in 1/100000 kcal (exact for the  *)
(*                                        integer body metrics used here), *)
(*   macro_fit                            in 1/1000,                       *)
(*   reward                               in 1/10000,                      *)
(*   context vector entries               in 1/100.                        *)
(***************************************************************************)
EXTENDS Integers, Sequences, FiniteSets, TLC

(* Python's None where a row, an entry or an object is expected; an        *)
(* optional number is a sequence of length 0 (None) or 1.                  *)
None == [none |-> TRUE]
NoNumber == <<>>

Max(a, b) == IF a >= b THEN a ELSE b
Min(a, b) == IF a <= b THEN a ELSE b
Abs(a) == IF a >= 0 THEN a ELSE 0 - a

(* F(e), with e evaluated once, before F is applied to it. *)
Strict(e, F(_)) == CHOOSE r \in {F(v) : v \in {e}} : TRUE

(* round(): n/q rounded to the nearest integer, ties to even. *)
RoundHalfEven(n, q) ==
    LET f == n \div q
        r == n % q
    IN  IF 2 * r < q THEN f
        ELSE IF 2 * r > q THEN f + 1
        ELSE IF f % 2 = 0 THEN f ELSE f + 1

(***************************************************************************)
(* recommender/nutrition_engine.py                                         *)
(***************************************************************************)
MEAL_ORDER == <<"breakfast", "lunch", "dinner", "snack">>
MealSlots == {"breakfast", "lunch", "dinner", "snack"}

(* ACTIVITY_MULTIPLIERS, in thousandths. *)
ACTIVITY_MULTIPLIERS ==
    [sedentary |-> 1200, light |-> 1375, moderate |-> 1550,
     very_active |-> 1725, extra_active |-> 1900]

(* compute_bmr, in hundredths of a kcal. *)
compute_bmr(profile) ==
    IF profile.gender = "male"
    THEN 1000 * profile.weight_kg + 625 * profile.height_cm - 500 * profile.age + 500
    ELSE 1000 * profile.weight_kg + 625 * profile.height_cm - 500 * profile.age - 16100

(* compute_tdee, in 1/100000 kcal. *)
compute_tdee(profile) ==
    compute_bmr(profile) * ACTIVITY_MULTIPLIERS[profile.activity_level]

CalUnit == 100 * 1000

(* adjust_for_goal, in 1/100000 kcal. *)
adjust_for_goal(tdee, goal) ==
    IF goal = "weight_loss" THEN Max(1200 * CalUnit, tdee - 400 * CalUnit)
    ELSE IF goal = "muscle_gain" THEN tdee + 300 * CalUnit
    ELSE tdee

(* The unrounded quantities of compute_macro_targets:                      *)
(* daily_cals in 1/100000 kcal, protein_g and fats_g in tenths of a gram.  *)
DailyCals(profile) ==
    IF profile.target_calories # NoNumber
    THEN profile.target_calories[1] * CalUnit
    ELSE adjust_for_goal(compute_tdee(profile), profile.goal)

ProteinTenths(profile) ==
    IF profile.target_protein_g # NoNumber
    THEN 10 * profile.target_protein_g[1]
    ELSE 18 * profile.weight_kg

FatsTenths(profile) == 8 * profile.weight_kg

RemainingCalMutant(profile) ==
    DailyCals(profile)
      - (4 * ProteinTenths(profile) + 9 * FatsTenths(profile)) * (CalUnit \div 10)

(* remaining_cal = max(0.0, daily_cals - protein_cal - fat_cal) *)
RemainingCal(profile) ==
    Max(0, DailyCals(profile)
             - (4 * ProteinTenths(profile) + 9 * FatsTenths(profile)) * (CalUnit \div 10))

(* compute_macro_targets: every field rounded to one decimal (tenths). *)
compute_macro_targets(profile) ==
    [calories  |-> RoundHalfEven(DailyCals(profile), CalUnit \div 10),
     protein_g |-> ProteinTenths(profile),
     carbs_g   |-> RoundHalfEven(RemainingCal(profile), 4 * (CalUnit \div 10)),
     fats_g    |-> FatsTenths(profile)]

MealSharesMutant ==
    [breakfast |-> 25, lunch |-> 35, dinner |-> 30, snack |-> 15]

(* MEAL_SHARES, in hundredths. *)
MEAL_SHARES ==
    [breakfast |-> 25, lunch |-> 35, dinner |-> 30, snack |-> 10]

(* get_meal_macro_targets: tenths * hundredths = thousandths. *)
get_meal_macro_targets(daily, meal_type) ==
    LET s == IF meal_type \in DOMAIN MEAL_SHARES THEN MEAL_SHARES[meal_type] ELSE 25
    IN  [calories  |-> daily.calories * s,
         protein_g |-> daily.protein_g * s,
         carbs_g   |-> daily.carbs_g * s,
         fats_g    |-> daily.fats_g * s]

(***************************************************************************)
(* Strings.  A Python str is a sequence of one-character strings, so that  *)
(* joining, splitting and substring search are computed as the code does.  *)
(***************************************************************************)
Get(dict, key, default) == IF key \in DOMAIN dict THEN dict[key] ELSE default

(* dict[key] = value *)
Put(dict, key, value) == (key :> value) @@ dict

EmptyDict == [k \in {} |-> 0]

(***************************************************************************)
(* The food catalog (food_df): rows in file order.  Macros in tenths.      *)
(* Four breakfast dishes (two written with a capital, one of them Veg),    *)
(* one lunch dish, no dinner and no snack dish.                            *)
(***************************************************************************)
Oats == <<"O", "a", "t", "s">>
Egg  == <<"E", "g", "g">>
Dal  == <<"D", "a", "l", "|", "|", "R">>
Ham  == <<"H", "a", "m">>
Fish == <<"F", "i", "s", "h">>

food_df ==
    << [name |-> Oats,     Category |-> "Breakfast", Veg_NonVeg |-> "Veg",
        cal |-> 3000, prot |-> 100, carbs |-> 500, fats |-> 60],
       [name |-> Egg,      Category |-> "breakfast", Veg_NonVeg |-> "Non-Veg",
        cal |-> 3500, prot |-> 180, carbs |-> 300, fats |-> 150],
       [name |-> Dal,      Category |-> "lunch",     Veg_NonVeg |-> "Veg",
        cal |-> 9000, prot |-> 400, carbs |-> 1500, fats |-> 200],
       [name |-> Ham,      Category |-> "breakfast", Veg_NonVeg |-> "Non-Veg",
        cal |-> 2500, prot |-> 200, carbs |-> 50, fats |-> 180],
       [name |-> Fish,     Category |-> "Breakfast", Veg_NonVeg |-> "Non-Veg",
        cal |-> 4000, prot |-> 300, carbs |-> 100, fats |-> 120] >>

DishNames == {food_df[i].name : i \in DOMAIN food_df}

(***************************************************************************)
(* recommender/bandit.py                                                   *)
(***************************************************************************)
(* A length-11 vector and an 11 x 11 matrix, built element by element.     *)
Vec(F(_)) == <<F(1), F(2), F(3), F(4), F(5), F(6), F(7), F(8), F(9), F(10), F(11)>>
Mat(G(_, _)) == Vec(LAMBDA i : Vec(LAMBDA j : G(i, j)))

Dot(u, v) ==
    u[1] * v[1] + u[2] * v[2] + u[3] * v[3] + u[4] * v[4] + u[5] * v[5] + u[6] * v[6]
      + u[7] * v[7] + u[8] * v[8] + u[9] * v[9] + u[10] * v[10] + u[11] * v[11]

(* x entries are hundredths, so the entries of A are 1/10000: x x^T is     *)
(* exact and the identity is 10000 on the diagonal.                        *)
XUnit == 10 * 10
AUnit == XUnit * XUnit

Eye == Mat(LAMBDA i, j : IF i = j THEN AUnit ELSE 0)
Zeros == Vec(LAMBDA i : 0)

(* ArmState.create: A = np.eye(d), b = np.zeros(d) *)
ArmCreate == [A |-> Eye, b |-> Zeros]

(* profile.bmi, in hundredths *)
Bmi(profile) ==
    (profile.weight_kg * 1000 * 1000) \div (profile.height_cm * profile.height_cm)

(* build_context: [bias, bmi_norm, gender_flag] + meal_onehot + fractions  *)
build_context(profile, daily_targets, meal_type, dish_row) ==
    LET bmi_norm    == Min(Max((Bmi(profile) - 1500) \div 20, 0), XUnit)
        gender_flag == IF profile.gender = "male" THEN XUnit ELSE 0
        onehot(mt)  == IF meal_type = mt THEN XUnit ELSE 0
        frac(v, t)  == (v * XUnit) \div Max(10, t)
    IN  << XUnit, bmi_norm, gender_flag,
           onehot("breakfast"), onehot("lunch"), onehot("dinner"), onehot("snack"),
           frac(dish_row.cal, daily_targets.calories),
           frac(dish_row.prot, daily_targets.protein_g),
           frac(dish_row.carbs, daily_targets.carbs_g),
           frac(dish_row.fats, daily_targets.fats_g) >>

(* rel_err of compute_macro_fit, in thousandths; v in tenths, t in         *)
(* thousandths.                                                            *)
rel_err(v, t) == IF t <= 0 THEN 0 ELSE (Abs(v * 100 - t) * 1000) \div t

(* compute_macro_fit, in thousandths *)
compute_macro_fit(meal_targets, cal, prot, carbs, fats) ==
    LET mean_err == (rel_err(cal, meal_targets.calories)
                       + rel_err(prot, meal_targets.protein_g)
                       + rel_err(carbs, meal_targets.carbs_g)
                       + rel_err(fats, meal_targets.fats_g)) \div 4
    IN  Max(0, 1000 - mean_err)

FbScoreMutant(feedback) == IF feedback > 0 THEN 10 ELSE 0

(* fb_score of update, in tenths: +1 -> 1.0, -1 -> 0.0, 0 -> 0.5 *)
FbScore(feedback) ==
    IF feedback > 0 THEN 10 ELSE IF feedback < 0 THEN 0 ELSE 5

(* reward = clamp(0.7 * fb_score + 0.3 * macro_fit, 0, 1), in 1/10000 *)
Reward(daily_targets, meal_type, dish_row, feedback) ==
    LET meal_targets == get_meal_macro_targets(daily_targets, meal_type)
        macro_fit == compute_macro_fit(meal_targets, dish_row.cal, dish_row.prot,
                                       dish_row.carbs, dish_row.fats)
    IN  Max(0, Min(10000, 700 * FbScore(feedback) + 3 * macro_fit))

(* np.linalg.inv: Gauss-Jordan elimination of [M | N] in fixed point       *)
(* (entries in 1/10000), one pivot after the other for the d = 11 columns; *)
(* mk and nk are the scaled pivot rows.  A zero pivot leaves the pair as   *)
(* it is.                                                                  *)
Eliminate(M, N, k, mk, nk) ==
    << Vec(LAMBDA i : IF i = k THEN mk
                      ELSE Vec(LAMBDA j : M[i][j] - (M[i][k] * mk[j]) \div AUnit)),
       Vec(LAMBDA i : IF i = k THEN nk
                      ELSE Vec(LAMBDA j : N[i][j] - (M[i][k] * nk[j]) \div AUnit)) >>

Pivot(MN, k) ==
    IF MN[1][k][k] = 0 THEN MN
    ELSE Eliminate(MN[1], MN[2], k,
                   Vec(LAMBDA j : (MN[1][k][j] * AUnit) \div MN[1][k][k]),
                   Vec(LAMBDA j : (MN[2][k][j] * AUnit) \div MN[1][k][k]))

GaussJordan(A) ==
    Pivot(Pivot(Pivot(Pivot(Pivot(Pivot(Pivot(Pivot(Pivot(Pivot(Pivot(
        <<A, Eye>>, 1), 2), 3), 4), 5), 6), 7), 8), 9), 10), 11)

Inv(A) == GaussJordan(A)[2]

(* np.sqrt: the integer square root, by bisection. *)
RECURSIVE SqrtBetween(_, _, _)
SqrtBetween(n, lo, hi) ==
    IF lo >= hi THEN lo
    ELSE LET mid == (lo + hi + 1) \div 2
         IN  IF mid * mid <= n THEN SqrtBetween(n, mid, hi)
             ELSE SqrtBetween(n, lo, mid - 1)

ISqrt(n) == SqrtBetween(n, 0, 46000)

(* The score of one arm in select_dish, in 1/1000000:                      *)
(* theta = A_inv @ b; mean = theta.x; var = sqrt(x.A_inv.x);               *)
(* score = mean + alpha * var (alpha = 0.4), + 0.05 when never seen.       *)
ScoreFrom(theta, y, x, seen) ==
    Dot(theta, x) + 40 * ISqrt(Dot(x, y)) + (IF seen = 0 THEN 50000 ELSE 0)

ScoreWith(A_inv, b4, x, seen) ==
    ScoreFrom(Vec(LAMBDA i : Dot(A_inv[i], b4) \div AUnit),
              Vec(LAMBDA i : Dot(A_inv[i], x)),
              x, seen)

Score(arm, x, seen) ==
    ScoreWith(Inv(arm.A), Vec(LAMBDA i : arm.b[i] \div XUnit), x, seen)

(* _get_user_arms: the user's entry is created on first use *)
get_user_arms(st, user_id) ==
    IF user_id \in DOMAIN st THEN st ELSE Put(st, user_id, EmptyDict)

EligibleMutant(B, user_id, weekly_counts, max_per_week, row) ==
    Get(weekly_counts, row.name, 0) < max_per_week

CapMutant(B, user_id, weekly_counts, max_per_week, row) ==
    Get(B.dislikes, <<user_id, row.name>>, 0) <= 0

(* the two hard constraints of select_dish (bandit.py 138-142) *)
Eligible(B, user_id, weekly_counts, max_per_week, row) ==
    /\ ~(Get(B.dislikes, <<user_id, row.name>>, 0) > 0)
    /\ ~(Get(weekly_counts, row.name, 0) >= max_per_week)

(* best_score = -1e9: below every score *)
MinScore == 0 - 2000 * 1000 * 1000

(* the scoring loop of select_dish over filtered_rows[i..]: creates the    *)
(* arm of every row it scores and keeps the first row of maximal score.    *)
(* best is the loop's state: best_score, best_row and, for the            *)
(* properties, the scores computed so far in the order of the rows.        *)
RECURSIVE ScoreLoop(_, _, _, _, _, _, _, _)
ScoreStepLast(B, profile, daily_targets, meal_type, rows, i, arms2, best, score) ==
    IF score >= best.score
    THEN ScoreLoop(B, profile, daily_targets, meal_type, rows, i + 1, arms2,
                   [score |-> score, row |-> rows[i], scores |-> Append(best.scores, score)])
    ELSE ScoreLoop(B, profile, daily_targets, meal_type, rows, i + 1, arms2,
                   [best EXCEPT !.scores = Append(best.scores, score)])

ScoreStepLeast(B, profile, daily_targets, meal_type, rows, i, arms2, best, score) ==
    IF score < best.score
    THEN ScoreLoop(B, profile, daily_targets, meal_type, rows, i + 1, arms2,
                   [score |-> score, row |-> rows[i], scores |-> Append(best.scores, score)])
    ELSE ScoreLoop(B, profile, daily_targets, meal_type, rows, i + 1, arms2,
                   [best EXCEPT !.scores = Append(best.scores, score)])

ScoreStep(B, profile, daily_targets, meal_type, rows, i, arms2, best, score) ==
    IF score > best.score
    THEN ScoreLoop(B, profile, daily_targets, meal_type, rows, i + 1, arms2,
                   [score |-> score, row |-> rows[i], scores |-> Append(best.scores, score)])
    ELSE ScoreLoop(B, profile, daily_targets, meal_type, rows, i + 1, arms2,
                   [best EXCEPT !.scores = Append(best.scores, score)])

SeenAlways(B, user_id, name) == 0

(* likes.get(key, 0) + dislikes.get(key, 0) of bandit.py 167-170 *)
Seen(B, user_id, name) ==
    Get(B.likes, <<user_id, name>>, 0) + Get(B.dislikes, <<user_id, name>>, 0)

ScoreRow(B, profile, daily_targets, meal_type, rows, i, arms2, best) ==
    Strict(Score(arms2[rows[i].name],
                 build_context(profile, daily_targets, meal_type, rows[i]),
                 Seen(B, profile.user_id, rows[i].name)),
           LAMBDA score : ScoreStep(B, profile, daily_targets, meal_type, rows, i, arms2,
                                   best, score))

ScoreLoop(B, profile, daily_targets, meal_type, rows, i, arms, best) ==
    IF i > Len(rows) THEN [row |-> best.row, arms |-> arms, scores |-> best.scores]
    ELSE Strict(IF rows[i].name \in DOMAIN arms THEN arms
                ELSE Put(arms, rows[i].name, ArmCreate),
                LAMBDA arms2 : ScoreRow(B, profile, daily_targets, meal_type, rows, i,
                                        arms2, best))

SelectResultTires(st0, user_id, r) ==
    [row |-> r.row,
     state |-> Put(st0, user_id,
                   IF r.row = None THEN r.arms
                   ELSE Put(r.arms, r.row.name,
                            [A |-> r.arms[r.row.name].A,
                             b |-> Vec(LAMBDA i : r.arms[r.row.name].b[i] - XUnit * AUnit)])),
     scores |-> r.scores]

SelectResultLearns(st0, user_id, r) ==
    [row |-> r.row,
     state |-> Put(st0, user_id,
                   IF r.row = None THEN r.arms
                   ELSE Put(r.arms, r.row.name,
                            [A |-> r.arms[r.row.name].A,
                             b |-> Vec(LAMBDA i : r.arms[r.row.name].b[i] + XUnit)])),
     scores |-> r.scores]

SelectResultOwnUser(st0, user_id, r) ==
    [row |-> r.row, state |-> [u \in {user_id} |-> r.arms], scores |-> r.scores]

SelectResult(st0, user_id, r) ==
    [row |-> r.row, state |-> Put(st0, user_id, r.arms), scores |-> r.scores]

SelectFrom(B, profile, daily_targets, meal_type, st0, filtered_rows) ==
    IF filtered_rows = <<>> THEN [row |-> None, state |-> st0, scores |-> <<>>]
    ELSE Strict(ScoreLoop(B, profile, daily_targets, meal_type, filtered_rows, 1,
                          st0[profile.user_id],
                          [score |-> MinScore, row |-> None, scores |-> <<>>]),
                LAMBDA r : SelectResult(st0, profile.user_id, r))

SelectDishMutant(B, profile, daily_targets, meal_type, candidate_df, weekly_counts, max_per_week) ==
    Strict(<< get_user_arms(B.state, profile.user_id),
              IF \E i \in DOMAIN candidate_df :
                     Eligible(B, profile.user_id, weekly_counts, max_per_week, candidate_df[i])
              THEN SelectSeq(candidate_df,
                             LAMBDA row : Eligible(B, profile.user_id, weekly_counts,
                                                   max_per_week, row))
              ELSE candidate_df >>,
           LAMBDA f : SelectFrom(B, profile, daily_targets, meal_type, f[1], f[2]))

(* select_dish: returns the chosen row (or None), the store's state dict   *)
(* after the call (arms are created lazily) and the scores it computed for *)
(* the rows that passed the two constraints, in their order.               *)
select_dish(B, profile, daily_targets, meal_type, candidate_df, weekly_counts, max_per_week) ==
    Strict(<< get_user_arms(B.state, profile.user_id),
              SelectSeq(candidate_df,
                        LAMBDA row : Eligible(B, profile.user_id, weekly_counts,
                                              max_per_week, row)) >>,
           LAMBDA f : SelectFrom(B, profile, daily_targets, meal_type, f[1], f[2]))

RankOneTorn(arm, x, reward) ==
    [A |-> Mat(LAMBDA i, j : arm.A[i][j] + x[i] * x[j]), b |-> arm.b]

RankOneMutant(arm, x, reward) ==
    [A |-> Mat(LAMBDA i, j : arm.A[i][j] - x[i] * x[j]),
     b |-> Vec(LAMBDA i : arm.b[i] + reward * x[i])]

(* arm.A += x @ x.T; arm.b += reward * x *)
RankOne(arm, x, reward) ==
    [A |-> Mat(LAMBDA i, j : arm.A[i][j] + x[i] * x[j]),
     b |-> Vec(LAMBDA i : arm.b[i] + reward * x[i])]

CountersMutant(B, key, feedback) ==
    [likes |-> IF feedback > 0 THEN Put(B.likes, key, 1) ELSE B.likes,
     dislikes |-> IF feedback < 0 THEN Put(B.dislikes, key, 1) ELSE B.dislikes]

CountersNeutralMutant(B, key, feedback) ==
    [likes |-> IF feedback >= 0 THEN Put(B.likes, key, Get(B.likes, key, 0) + 1)
               ELSE B.likes,
     dislikes |-> IF feedback < 0 THEN Put(B.dislikes, key, Get(B.dislikes, key, 0) + 1)
                  ELSE B.dislikes]

(* the feedback counters of update (bandit.py 200-208) *)
Counters(B, key, feedback) ==
    [likes |-> IF feedback > 0 THEN Put(B.likes, key, Get(B.likes, key, 0) + 1)
               ELSE B.likes,
     dislikes |-> IF feedback < 0 THEN Put(B.dislikes, key, Get(B.dislikes, key, 0) + 1)
                  ELSE B.dislikes]

UpdateArmMutant(B, st0, user_id, dish_id, arms, c, x, reward) ==
    [state    |-> Put(st0, user_id,
                      [dish \in DOMAIN arms |-> RankOne(arms[dish], x, reward)]),
     likes    |-> c.likes,
     dislikes |-> c.dislikes]

(* update from the arm on: the rank-1 update of the one arm, the counters. *)
UpdateArm(B, st0, user_id, dish_id, arms, c, x, reward) ==
    [state    |-> Put(st0, user_id, Put(arms, dish_id, RankOne(arms[dish_id], x, reward))),
     likes    |-> c.likes,
     dislikes |-> c.dislikes]

UpdateIn(B, profile, daily_targets, meal_type, dish_row, feedback, st0) ==
    UpdateArm(B, st0, profile.user_id, dish_row.name,
              IF dish_row.name \in DOMAIN st0[profile.user_id] THEN st0[profile.user_id]
              ELSE Put(st0[profile.user_id], dish_row.name, ArmCreate),
              Counters(B, <<profile.user_id, dish_row.name>>, feedback),
              build_context(profile, daily_targets, meal_type, dish_row),
              Reward(daily_targets, meal_type, dish_row, feedback))

(* update: the store after one feedback event *)
update(B, profile, daily_targets, meal_type, dish_row, feedback) ==
    UpdateIn(B, profile, daily_targets, meal_type, dish_row, feedback,
             get_user_arms(B.state, profile.user_id))

(***************************************************************************)
(* recommender/meal_recommender.py                                         *)
(***************************************************************************)
UpperChars == <<"A", "B", "C", "D", "E", "F", "G", "H", "I", "J", "K", "L", "M",
                "N", "O", "P", "Q", "R", "S", "T", "U", "V", "W", "X", "Y", "Z">>
LowerChars == <<"a", "b", "c", "d", "e", "f", "g", "h", "i", "j", "k", "l", "m",
                "n", "o", "p", "q", "r", "s", "t", "u", "v", "w", "x", "y", "z">>

LowerChar(c) ==
    IF \E i \in DOMAIN UpperChars : UpperChars[i] = c
    THEN LowerChars[CHOOSE i \in DOMAIN UpperChars : UpperChars[i] = c]
    ELSE c

(* str.lower() of a dish name or an allergy string *)
Lower(str) == [i \in DOMAIN str |-> LowerChar(str[i])]

(* str.lower() of the category and diet tags, which are whole words here *)
LowerWord(w) ==
    CASE w = "Breakfast" -> "breakfast"
      [] w = "Lunch"     -> "lunch"
      [] w = "Dinner"    -> "dinner"
      [] w = "Snack"     -> "snack"
      [] w = "Veg"       -> "veg"
      [] w = "Non-Veg"   -> "non-veg"
      [] w = "Male"      -> "male"
      [] w = "Female"    -> "female"
      [] OTHER           -> w

(* a in name, for Python strings *)
Contains(name, a) ==
    \E i \in 0 .. (Len(name) - Len(a)) : SubSeq(name, i + 1, i + Len(a)) = a

FilterFoodsAnyCategory(profile, meal_type) ==
    SelectSeq(food_df,
              LAMBDA row :
                  /\ (profile.dietary_pref = "veg" => LowerWord(row.Veg_NonVeg) = "veg")
                  /\ ~ \E a \in profile.allergies : Contains(Lower(row.name), Lower(a)))

FilterFoodsMutant(profile, meal_type) ==
    SelectSeq(food_df,
              LAMBDA row :
                  /\ LowerWord(row.Category) = LowerWord(meal_type)
                  /\ (profile.dietary_pref = "veg" => LowerWord(row.Veg_NonVeg) = "veg")
                  /\ ~ \E a \in profile.allergies : Contains(row.name, a))

(* _filter_foods: category, diet preference, allergy substrings           *)
(* (allergies: the set of substrings; None and [] are both empty)         *)
filter_foods(profile, meal_type) ==
    SelectSeq(food_df,
              LAMBDA row :
                  /\ LowerWord(row.Category) = LowerWord(meal_type)
                  /\ (profile.dietary_pref = "veg" => LowerWord(row.Veg_NonVeg) = "veg")
                  /\ ~ \E a \in profile.allergies : Contains(Lower(row.name), Lower(a)))

(* meal_entry of generate_weekly_plan; the catalog has no price column *)
MealEntry(chosen_row, meal_type) ==
    [dish_name     |-> chosen_row.name,
     calories_kcal |-> chosen_row.cal,
     protein_g     |-> chosen_row.prot,
     carbs_g       |-> chosen_row.carbs,
     fats_g        |-> chosen_row.fats,
     category      |-> meal_type,
     veg_nonveg    |-> chosen_row.Veg_NonVeg,
     price_inr     |-> 0]

(* max_per_week=2 passed by generate_weekly_plan *)
MaxPerWeek == 2

CountOnce(weekly_counts, sel) ==
    IF sel.row = None THEN weekly_counts
    ELSE Put(weekly_counts, sel.row.name, 1)

(* weekly_counts[dish_name] = weekly_counts.get(dish_name, 0) + 1 when a   *)
(* dish was chosen (meal_recommender.py 136)                               *)
Count(weekly_counts, sel) ==
    IF sel.row = None THEN weekly_counts
    ELSE Put(weekly_counts, sel.row.name, Get(weekly_counts, sel.row.name, 0) + 1)

(* The body of the inner loop of generate_weekly_plan for one meal slot.   *)
(* acc is the loop's state before the slot: the store's state dict,        *)
(* weekly_counts and the day_meals filled so far, and, for the properties, *)
(* the value of weekly_counts after each slot so far.                      *)
MealRecord(acc, meal_type, sel) ==
    [state |-> sel.state,
     weekly_counts |-> Count(acc.weekly_counts, sel),
     meals |-> Put(acc.meals, meal_type,
                   IF sel.row = None THEN None ELSE MealEntry(sel.row, meal_type)),
     trace |-> Append(acc.trace, Count(acc.weekly_counts, sel))]

MealSelectCapThree(B, profile, daily_targets, acc, meal_type, candidates) ==
    IF candidates = <<>> THEN [row |-> None, state |-> acc.state]
    ELSE select_dish([B EXCEPT !.state = acc.state], profile, daily_targets,
                     meal_type, candidates, acc.weekly_counts, MaxPerWeek + 1)

MealSelect(B, profile, daily_targets, acc, meal_type, candidates) ==
    IF candidates = <<>> THEN [row |-> None, state |-> acc.state]
    ELSE select_dish([B EXCEPT !.state = acc.state], profile, daily_targets,
                     meal_type, candidates, acc.weekly_counts, MaxPerWeek)

MealStep(B, profile, daily_targets, acc, meal_type) ==
    Strict(MealSelect(B, profile, daily_targets, acc, meal_type,
                      filter_foods(profile, meal_type)),
           LAMBDA sel : MealRecord(acc, meal_type, sel))

(* for meal_type in MEAL_ORDER[lo..hi], in order: the first half of the    *)
(* range, then the second half from the state the first half left.         *)
RECURSIVE MealLoop(_, _, _, _, _, _)
MealLoop(B, profile, daily_targets, acc, lo, hi) ==
    IF lo = hi THEN MealStep(B, profile, daily_targets, acc, MEAL_ORDER[lo])
    ELSE Strict(MealLoop(B, profile, daily_targets, acc, lo, (lo + hi) \div 2),
                LAMBDA mid : MealLoop(B, profile, daily_targets, mid,
                                      ((lo + hi) \div 2) + 1, hi))

DayRecordMutant(acc, day, m) ==
    [state |-> m.state,
     weekly_counts |-> m.weekly_counts,
     days |-> Append(acc.days, [day |-> day - 1, meals |-> m.meals]),
     trace |-> m.trace]

(* The body of the outer loop for one day: day_meals starts empty, the     *)
(* four slots run, the day is appended to plan["days"].                    *)
DayRecord(acc, day, m) ==
    [state |-> m.state,
     weekly_counts |-> m.weekly_counts,
     days |-> Append(acc.days, [day |-> day, meals |-> m.meals]),
     trace |-> m.trace]

DayStep(B, profile, daily_targets, acc, day) ==
    Strict(MealLoop(B, profile, daily_targets,
                    [state |-> acc.state, weekly_counts |-> acc.weekly_counts,
                     meals |-> EmptyDict, trace |-> acc.trace],
                    1, Len(MEAL_ORDER)),
           LAMBDA m : DayRecord(acc, day, m))

(* for day_idx in lo-1..hi-1, in order, by halves as above *)
RECURSIVE DayLoop(_, _, _, _, _, _)
DayLoop(B, profile, daily_targets, acc, lo, hi) ==
    IF lo = hi THEN DayStep(B, profile, daily_targets, acc, lo)
    ELSE Strict(DayLoop(B, profile, daily_targets, acc, lo, (lo + hi) \div 2),
                LAMBDA mid : DayLoop(B, profile, daily_targets, mid,
                                     ((lo + hi) \div 2) + 1, hi))

PlanResult(profile, daily_targets, r) ==
    [plan  |-> [user_id |-> profile.user_id,
                daily_targets |-> daily_targets,
                days |-> r.days],
     state |-> r.state,
     trace |-> r.trace]

PlanFor(B, profile, daily_targets) ==
    Strict(DayLoop(B, profile, daily_targets,
                   [state |-> B.state, weekly_counts |-> EmptyDict, days |-> <<>>,
                    trace |-> <<>>],
                   1, 7),
           LAMBDA r : PlanResult(profile, daily_targets, r))

(* generate_weekly_plan: the plan, the store's state dict afterwards and   *)
(* the trace of weekly_counts                                              *)
generate_weekly_plan(B, profile) ==
    Strict(compute_macro_targets(profile), LAMBDA daily_targets :
               PlanFor(B, profile, daily_targets))

(***************************************************************************)
(* The state: the process-wide bandit store of app/routes.py (bandit =     *)
(* LinUCBBandit(d=11, alpha=0.4)), the result of the call in progress, and *)
(* history variables the properties are stated with.                       *)
(***************************************************************************)
VARIABLES
    state,      \* bandit.state: user_id -> dish name -> [A, b]
    likes,      \* bandit.likes: <<user_id, dish>> -> count
    dislikes,   \* bandit.dislikes: <<user_id, dish>> -> count
    ret,        \* the call that has just returned and what it returned
    hist,       \* history: <<user_id, dish>> -> the updates applied, in order
    nCalls,     \* history: number of select_dish / filter / plan calls made
    inp,        \* the profile a nutrition function is applied to
    out,        \* the last nutrition function applied and its result
    file,       \* the JSON file written by save
    loaded,     \* the store returned by load
    reqs,       \* like and dislike requests, in the order the service accepted them
    applied,    \* history: indexes of reqs in the order bandit.update ran
    fetch,      \* the weekly-plan request waiting for the user service
    db          \* the MongoDB collections meal_dislikes and preferences

storeVars == <<state, likes, dislikes>>
callVars == <<ret, hist, nCalls>>
pureVars == <<inp, out>>
persistVars == <<file, loaded>>
serviceVars == <<reqs, applied, fetch, db>>
vars == <<state, likes, dislikes, ret, hist, nCalls, inp, out, file, loaded,
          reqs, applied, fetch, db>>

Bandit == [state |-> state, likes |-> likes, dislikes |-> dislikes]

Idle == [op |-> "idle"]

(* User ids, and the profile the caller holds for each. *)
Ann == <<"a", "n", "n">>
Bo  == <<"b", "o", "|">>
Users == {Ann, Bo}

ProfileOf(user_id) ==
    IF user_id = Ann
    THEN [user_id |-> Ann, height_cm |-> 175, weight_kg |-> 72, age |-> 25,
          gender |-> "male", activity_level |-> "moderate", goal |-> "maintenance",
          target_calories |-> NoNumber, target_protein_g |-> NoNumber,
          dietary_pref |-> "veg", allergies |-> {}]
    ELSE [user_id |-> user_id, height_cm |-> 160, weight_kg |-> 60, age |-> 40,
          gender |-> "female", activity_level |-> "light", goal |-> "weight_loss",
          target_calories |-> NoNumber, target_protein_g |-> NoNumber,
          dietary_pref |-> "non-veg", allergies |-> {<<"D", "A", "L">>}]

MaxUpdates == 2
MaxCalls == 1

RECURSIVE SumLen(_, _)
SumLen(f, keys) ==
    IF keys = {} THEN 0
    ELSE LET k == CHOOSE k \in keys : TRUE
         IN  Len(f[k]) + SumLen(f, keys \ {k})

TotalUpdates == SumLen(hist, DOMAIN hist)

(* The process after import of app/routes.py: an empty store, nothing in   *)
(* flight, nothing saved.                                                  *)
Init ==
    /\ state = EmptyDict
    /\ likes = EmptyDict
    /\ dislikes = EmptyDict
    /\ ret = Idle
    /\ hist = EmptyDict
    /\ nCalls = 0
    /\ inp = None
    /\ out = Idle
    /\ file = None
    /\ loaded = None
    /\ reqs = <<>>
    /\ applied = <<>>
    /\ fetch = Idle
    /\ db = [meal_dislikes |-> EmptyDict, preferences |-> {}]

(* One call bandit.update(profile, daily_targets, meal_type, dish_row,     *)
(* feedback), with the record of it appended to the arm's history.         *)
ApplyUpdate(profile, daily_targets, meal_type, dish_row, feedback) ==
    \E B2 \in {update(Bandit, profile, daily_targets, meal_type, dish_row, feedback)},
       key \in {<<profile.user_id, dish_row.name>>} :
        /\ state' = B2.state
        /\ likes' = B2.likes
        /\ dislikes' = B2.dislikes
        /\ hist' = Put(hist, key,
                       Append(Get(hist, key, <<>>),
                              [x |-> build_context(profile, daily_targets, meal_type,
                                                   dish_row),
                               reward |-> Reward(daily_targets, meal_type, dish_row,
                                                 feedback),
                               feedback |-> feedback]))

(* The meal type a caller passes with a dish: the slot it was planned in. *)
MealTypesFor(dish_row) == {LowerWord(dish_row.Category)}

(* The rows of the catalog feedback is given on. *)
FeedbackRows == {i \in DOMAIN food_df : food_df[i].name \in {Oats, Egg, Dal}}

Update ==
    /\ ret = Idle
    /\ TotalUpdates < MaxUpdates
    /\ \E user_id \in Users, i \in FeedbackRows, feedback \in {-1, 0, 1} :
         \E meal_type \in MealTypesFor(food_df[i]) :
            /\ ApplyUpdate(ProfileOf(user_id), compute_macro_targets(ProfileOf(user_id)),
                           meal_type, food_df[i], feedback)
            /\ ret' = [op |-> "update", user_id |-> user_id]
    /\ UNCHANGED <<nCalls, pureVars, persistVars, serviceVars>>

(* Two rows that differ in nothing but their name. *)
Tea  == <<"T", "e", "a">>
Chai == <<"C", "h", "a", "i">>
TwinRows ==
    << [name |-> Tea,  Category |-> "snack", Veg_NonVeg |-> "Veg",
        cal |-> 1000, prot |-> 20, carbs |-> 200, fats |-> 20],
       [name |-> Chai, Category |-> "snack", Veg_NonVeg |-> "Veg",
        cal |-> 1000, prot |-> 20, carbs |-> 200, fats |-> 20] >>

(* The candidate frames and weekly counts select_dish is called with: what *)
(* the planner passes, the whole catalog, and the two twin rows.           *)
CandidateFrames(profile) ==
    {<<meal_type, filter_foods(profile, meal_type)>> : meal_type \in MealSlots}
      \cup {<<"lunch", food_df>>, <<"snack", TwinRows>>}

WeeklyCountsMenu ==
    {EmptyDict, [n \in DishNames |-> 1], [n \in {Oats, Dal} |-> 2]}

SelectDish ==
    /\ ret = Idle
    /\ nCalls < MaxCalls
    /\ \E user_id \in Users, weekly_counts \in WeeklyCountsMenu :
         \E frame \in CandidateFrames(ProfileOf(user_id)) :
            \E r \in {select_dish(Bandit, ProfileOf(user_id),
                                   compute_macro_targets(ProfileOf(user_id)),
                                   frame[1], frame[2], weekly_counts, MaxPerWeek)} :
                /\ state' = r.state
                /\ ret' = [op |-> "select_dish", user_id |-> user_id,
                           meal_type |-> frame[1], candidate_df |-> frame[2],
                           weekly_counts |-> weekly_counts, row |-> r.row,
                           scores |-> r.scores]
    /\ nCalls' = nCalls + 1
    /\ UNCHANGED <<likes, dislikes, hist, pureVars, persistVars, serviceVars>>

GenerateWeeklyPlan ==
    /\ ret = Idle
    /\ nCalls < MaxCalls
    /\ \E user_id \in Users :
         \E r \in {generate_weekly_plan(Bandit, ProfileOf(user_id))} :
             /\ state' = r.state
             /\ ret' = [op |-> "generate_weekly_plan", user_id |-> user_id,
                        plan |-> r.plan, trace |-> r.trace]
    /\ nCalls' = nCalls + 1
    /\ UNCHANGED <<likes, dislikes, hist, pureVars, persistVars, serviceVars>>

(* A second generate_weekly_plan call right after one has returned, for    *)
(* the same user or another, with no update in between; the first call's   *)
(* user and plan are kept beside the second's.                             *)
GenerateWeeklyPlanAgain ==
    /\ ret.op = "generate_weekly_plan"
    /\ "first" \notin DOMAIN ret
    /\ \E user_id \in Users :
         \E r \in {generate_weekly_plan(Bandit, ProfileOf(user_id))} :
             /\ state' = r.state
             /\ ret' = [op |-> "generate_weekly_plan", user_id |-> user_id,
                        plan |-> r.plan, trace |-> r.trace,
                        first |-> [user_id |-> ret.user_id, plan |-> ret.plan]]
    /\ nCalls' = nCalls + 1
    /\ UNCHANGED <<likes, dislikes, hist, pureVars, persistVars, serviceVars>>

(* The preferences, allergy lists and slot names _filter_foods is called   *)
(* with: capitals in the allergy and in the slot name, a substring of two  *)
(* dish names, the empty string, two allergies at once.                    *)
DietaryPrefs == {"veg", "non-veg"}
AllergyLists ==
    { {}, {<<"E", "G", "G">>}, {<<"a">>}, {<<>>}, {<<"o", "a", "t">>, <<"l", "|">>} }
FilterMealTypes == {"breakfast", "lunch", "Lunch", "dinner", "snack"}

FilterFoods ==
    /\ ret = Idle
    /\ nCalls < MaxCalls
    /\ \E dietary_pref \in DietaryPrefs, allergies \in AllergyLists,
          meal_type \in FilterMealTypes :
         ret' = [op |-> "filter_foods", dietary_pref |-> dietary_pref,
                 allergies |-> allergies, meal_type |-> meal_type,
                 rows |-> filter_foods([ProfileOf(Ann) EXCEPT
                                           !.dietary_pref = dietary_pref,
                                           !.allergies = allergies],
                                       meal_type)]
    /\ nCalls' = nCalls + 1
    /\ UNCHANGED <<storeVars, hist, pureVars, persistVars, serviceVars>>

(* The caller takes the result; the next call can start. *)
Return ==
    /\ ret # Idle
    /\ ret' = Idle
    /\ UNCHANGED <<storeVars, hist, nCalls, pureVars, persistVars, serviceVars>>

Next ==
    Update \/ SelectDish \/ GenerateWeeklyPlan \/ GenerateWeeklyPlanAgain
      \/ FilterFoods \/ Return

Spec == Init /\ [][Next]_vars

(***************************************************************************)
(* Properties of the store under Spec.                                     *)
(***************************************************************************)
Applied(user_id, dish) == Get(hist, <<user_id, dish>>, <<>>)

Disliked(user_id, dish) ==
    \E i \in DOMAIN Applied(user_id, dish) : Applied(user_id, dish)[i].feedback < 0

(* C1: once update has been called with feedback -1 for a user and a dish, *)
(* no later select_dish call for that user returns that dish, whatever the *)
(* candidates, the weekly counts and the updates in between.               *)
C1_DislikeVeto ==
    (ret.op = "select_dish" /\ ret.row # None)
        => ~ Disliked(ret.user_id, ret.row.name)

(* A select_dish call that returned a dish although one of its candidates  *)
(* had been disliked and liked again afterwards.                           *)
C1_Witness ==
    /\ ret.op = "select_dish"
    /\ ret.row # None
    /\ \E i \in DOMAIN ret.candidate_df :
         /\ Len(Applied(ret.user_id, ret.candidate_df[i].name)) = 2
         /\ Applied(ret.user_id, ret.candidate_df[i].name)[1].feedback = -1
         /\ Applied(ret.user_id, ret.candidate_df[i].name)[2].feedback = 1

(* The (day, slot) entries of a plan that carry the dish name. *)
SlotsOf(plan, name) ==
    {<<i, meal_type>> \in (DOMAIN plan.days) \X MealSlots :
        /\ plan.days[i].meals[meal_type] # None
        /\ plan.days[i].meals[meal_type].dish_name = name}

(* C2: in the plan returned by one generate_weekly_plan call, every dish   *)
(* name is carried by at most 2 of the 28 (day, slot) entries.             *)
C2_WeeklyCap ==
    ret.op = "generate_weekly_plan"
        => /\ Len(ret.plan.days) = 7
           /\ \A name \in DishNames : Cardinality(SlotsOf(ret.plan, name)) <= 2

(* A plan in which a breakfast dish reached the cap and a later breakfast  *)
(* slot stayed empty, for a user who had liked that dish before.           *)
C2_Witness ==
    /\ ret.op = "generate_weekly_plan"
    /\ \E name \in DishNames :
         /\ Cardinality(SlotsOf(ret.plan, name)) = 2
         /\ \E i \in DOMAIN Applied(ret.user_id, name) :
                Applied(ret.user_id, name)[i].feedback = 1
         /\ <<1, "breakfast">> \in SlotsOf(ret.plan, name)
    /\ ret.plan.days[7].meals["breakfast"] = None

(* x x^T summed over the updates applied to an arm, and reward * x. *)
RECURSIVE SumOuter(_, _)
SumOuter(h, n) ==
    IF n = 0 THEN Mat(LAMBDA i, j : 0)
    ELSE Strict(SumOuter(h, n - 1),
                LAMBDA S : Mat(LAMBDA i, j : S[i][j] + h[n].x[i] * h[n].x[j]))

RECURSIVE SumRewardX(_, _)
SumRewardX(h, n) ==
    IF n = 0 THEN Zeros
    ELSE Strict(SumRewardX(h, n - 1),
                LAMBDA S : Vec(LAMBDA i : S[i] + h[n].reward * h[n].x[i]))

ArmKeys(st) == UNION {{<<u, d>> : d \in DOMAIN st[u]} : u \in DOMAIN st}

Dim == 1 .. 11

(* Every pivot Gauss-Jordan elimination divides by, from the k-th on, is   *)
(* positive.                                                               *)
RECURSIVE PivotsPositive(_, _)
PivotsPositive(MN, k) ==
    IF k > 11 THEN TRUE
    ELSE MN[1][k][k] > 0 /\ PivotsPositive(Pivot(MN, k), k + 1)

IsIdentityPlus(A, S) ==
    \A i \in Dim, j \in Dim : A[i][j] = Eye[i][j] + S[i][j]

ArmIsSPD(A, h) ==
    /\ \A i \in Dim, j \in Dim : A[i][j] = A[j][i]
    /\ IsIdentityPlus(A, SumOuter(h, Len(h)))
    /\ \A i \in Dim : A[i][i] >= AUnit
    /\ \A i \in Dim, j \in Dim :
           i # j => A[i][i] + A[j][j] > 2 * Abs(A[i][j])
    /\ h # <<>> => PivotsPositive(<<A, Eye>>, 1)

(* C3: in every reachable state of the store, every arm's matrix A is      *)
(* symmetric and positive-definite: it is the identity plus the sum of the *)
(* x x^T of the updates applied to the arm, its quadratic form is positive *)
(* on the unit vectors and their pairwise sums and differences, and every  *)
(* pivot the inversion divides by is positive.                             *)
C3_ArmMatrixSPD ==
    \A k \in ArmKeys(state) : ArmIsSPD(state[k[1]][k[2]].A, Applied(k[1], k[2]))

(* An arm that has received two updates and has been scored, and chosen,   *)
(* by a selection since.                                                   *)
C3_Witness ==
    /\ ret.op = "select_dish"
    /\ ret.row # None
    /\ Len(Applied(ret.user_id, ret.row.name)) = 2
    /\ state[ret.user_id][ret.row.name].A # Eye

(* The names of the dishes _filter_foods admits for a profile and a slot. *)
Admitted(profile, meal_type) ==
    {filter_foods(profile, meal_type)[i].name :
        i \in DOMAIN filter_foods(profile, meal_type)}

(* The admitted dishes of a slot the user has not given -1 feedback on. *)
NotDisliked(user_id, meal_type) ==
    {name \in Admitted(ProfileOf(user_id), meal_type) : ~ Disliked(user_id, name)}

(* The days of a plan on which a slot holds a dish. *)
PopulatedDays(plan, meal_type) ==
    {i \in DOMAIN plan.days : plan.days[i].meals[meal_type] # None}

(* C11 as the scenario words it: the slot whose admitted dishes are all     *)
(* disliked is null on the 7 days and every other slot holds a dish on     *)
(* each of the 7 days.                                                     *)
C11_OtherSlotsAllPopulated ==
    ret.op = "generate_weekly_plan"
        => \A S \in MealSlots :
              (Admitted(ProfileOf(ret.user_id), S) # {} /\ NotDisliked(ret.user_id, S) = {})
                  => /\ PopulatedDays(ret.plan, S) = {}
                     /\ \A S2 \in MealSlots \ {S} : PopulatedDays(ret.plan, S2) = 1 .. 7

(* C11: if the user has given -1 feedback on every dish the filter admits  *)
(* for a slot, the slot is null on each of the 7 days of every later plan  *)
(* for the user; every slot holds a dish on the first min(7, 2n) days and  *)
(* on no other, n being the number of its admitted dishes the user has not *)
(* disliked, so the dislikes of one slot empty no other slot.              *)
C11_AllDislikedSlot ==
    ret.op = "generate_weekly_plan"
        => /\ Len(ret.plan.days) = 7
           /\ \A S \in MealSlots :
                 /\ NotDisliked(ret.user_id, S) = {} => PopulatedDays(ret.plan, S) = {}
                 /\ PopulatedDays(ret.plan, S)
                       = 1 .. Min(7, MaxPerWeek * Cardinality(NotDisliked(ret.user_id, S)))

(* A plan for a user who has disliked the one breakfast dish admitted for  *)
(* them: no breakfast on any day, lunch on the first two days.             *)
C11_Witness ==
    /\ ret.op = "generate_weekly_plan"
    /\ Admitted(ProfileOf(ret.user_id), "breakfast") # {}
    /\ NotDisliked(ret.user_id, "breakfast") = {}
    /\ PopulatedDays(ret.plan, "breakfast") = {}
    /\ PopulatedDays(ret.plan, "lunch") = {1, 2}

(* How often the plan holds the dish in the slots that were filled before  *)
(* slot number k of day d.                                                 *)
PlannedBefore(plan, d, k, name) ==
    Cardinality({p \in (DOMAIN plan.days) \X (DOMAIN MEAL_ORDER) :
                    /\ p[1] < d \/ (p[1] = d /\ p[2] < k)
                    /\ plan.days[p[1]].meals[MEAL_ORDER[p[2]]] # None
                    /\ plan.days[p[1]].meals[MEAL_ORDER[p[2]]].dish_name = name})

(* The candidates of slot number k of day d that are neither vetoed nor    *)
(* capped when the slot is filled.                                         *)
EligibleAt(user_id, plan, d, k) ==
    {name \in Admitted(ProfileOf(user_id), MEAL_ORDER[k]) :
        /\ Get(dislikes, <<user_id, name>>, 0) = 0
        /\ PlannedBefore(plan, d, k, name) < MaxPerWeek}

(* C12: whatever the store, generate_weekly_plan returns a plan of 7 day   *)
(* entries numbered 1..7 in order, each with exactly the keys breakfast,   *)
(* lunch, dinner and snack; a slot holds null exactly when it has no       *)
(* eligible candidate (none admitted by the filter, or all of them vetoed  *)
(* or capped), and a dish that is an eligible candidate otherwise.         *)
C12_PlanCompletes ==
    ret.op = "generate_weekly_plan"
        => /\ ret.plan.user_id = ret.user_id
           /\ DOMAIN ret.plan.days = 1 .. 7
           /\ \A d \in DOMAIN ret.plan.days :
                 /\ ret.plan.days[d].day = d
                 /\ DOMAIN ret.plan.days[d].meals = MealSlots
                 /\ \A k \in DOMAIN MEAL_ORDER :
                       IF EligibleAt(ret.user_id, ret.plan, d, k) = {}
                       THEN ret.plan.days[d].meals[MEAL_ORDER[k]] = None
                       ELSE /\ ret.plan.days[d].meals[MEAL_ORDER[k]] # None
                            /\ ret.plan.days[d].meals[MEAL_ORDER[k]].dish_name
                                  \in EligibleAt(ret.user_id, ret.plan, d, k)

(* A plan with the three kinds of null slot: breakfast is filled on day 1  *)
(* and null on day 7, one of its candidates being vetoed and the other     *)
(* capped; lunch has no candidate at all, nor has dinner.                  *)
C12_Witness ==
    /\ ret.op = "generate_weekly_plan"
    /\ ret.plan.days[1].meals["breakfast"] # None
    /\ ret.plan.days[7].meals["breakfast"] = None
    /\ \E name \in Admitted(ProfileOf(ret.user_id), "breakfast") :
          Get(dislikes, <<ret.user_id, name>>, 0) > 0
    /\ \E name \in Admitted(ProfileOf(ret.user_id), "breakfast") :
          PlannedBefore(ret.plan, 7, 1, name) = MaxPerWeek
    /\ Admitted(ProfileOf(ret.user_id), "dinner") = {}
    /\ ret.plan.days[1].meals["dinner"] = None

(* The allergy string occurs in the dish name, letters compared without   *)
(* regard to case, position by position.                                   *)
HasSubstring(name, a) ==
    \E pre \in 0 .. Len(name) :
        /\ pre + Len(a) <= Len(name)
        /\ \A j \in 1 .. Len(a) : LowerChar(name[pre + j]) = LowerChar(a[j])

(* What the candidate filter has to admit. *)
ShouldAdmit(row, dietary_pref, allergies, meal_type) ==
    /\ LowerWord(row.Category) = LowerWord(meal_type)
    /\ dietary_pref = "veg" => row.Veg_NonVeg = "Veg"
    /\ \A a \in allergies : ~ HasSubstring(row.name, a)

RowsOf(rows) == {rows[i] : i \in DOMAIN rows}

(* C13: _filter_foods returns exactly the catalog rows whose category is   *)
(* the slot ignoring case, whose diet tag is Veg when dietary_pref is veg, *)
(* and whose name contains none of the allergy strings ignoring case, each *)
(* row once; and every dish of a generated plan is such a row for the      *)
(* slot it is planned in.                                                  *)
C13_CandidateFilter ==
    /\ ret.op = "filter_foods"
          => /\ RowsOf(ret.rows)
                   = {row \in RowsOf(food_df) :
                         ShouldAdmit(row, ret.dietary_pref, ret.allergies, ret.meal_type)}
             /\ Len(ret.rows) = Cardinality(RowsOf(ret.rows))
    /\ ret.op = "generate_weekly_plan"
          => \A d \in DOMAIN ret.plan.days, meal_type \in MealSlots :
                ret.plan.days[d].meals[meal_type] # None
                    => \E row \in RowsOf(food_df) :
                          /\ row.name = ret.plan.days[d].meals[meal_type].dish_name
                          /\ ShouldAdmit(row, ProfileOf(ret.user_id).dietary_pref,
                                         ProfileOf(ret.user_id).allergies, meal_type)

(* The filter called for a non-veg profile allergic to "EGG" and the slot  *)
(* "breakfast": of the four breakfast dishes it returns three, the first   *)
(* written "Breakfast" in the catalog, and drops "Egg".                    *)
C13_Witness ==
    /\ ret.op = "filter_foods"
    /\ ret.dietary_pref = "non-veg"
    /\ ret.allergies = {<<"E", "G", "G">>}
    /\ ret.meal_type = "breakfast"
    /\ Len(ret.rows) = 3
    /\ ret.rows[1].name = Oats
    /\ ret.rows[1].Category = "Breakfast"
    /\ \A i \in DOMAIN ret.rows : ret.rows[i].name # Egg

(***************************************************************************)
(* The nutrition functions and the reward, applied to profiles drawn from  *)
(* a bounded set: light and heavy bodies, young and old, every goal, with  *)
(* and without the target overrides.                                       *)
(***************************************************************************)
Heights == {150, 175}
Weights == {40, 72, 150}
Ages == {25, 80}
Genders == {"male", "female"}
ActivityLevels == {"sedentary", "moderate", "extra_active"}
Goals == {"weight_loss", "maintenance", "muscle_gain"}
TargetCalories == {NoNumber, <<1000>>}
TargetProtein == {NoNumber, <<300>>}

Profiles ==
    [user_id : {Ann}, height_cm : Heights, weight_kg : Weights, age : Ages,
     gender : Genders, activity_level : ActivityLevels, goal : Goals,
     target_calories : TargetCalories, target_protein_g : TargetProtein,
     dietary_pref : {"veg"}, allergies : {{}}]

InitPure ==
    /\ state = EmptyDict
    /\ likes = EmptyDict
    /\ dislikes = EmptyDict
    /\ ret = Idle
    /\ hist = EmptyDict
    /\ nCalls = 0
    /\ inp \in Profiles
    /\ out = Idle
    /\ file = None
    /\ loaded = None
    /\ reqs = <<>>
    /\ applied = <<>>
    /\ fetch = Idle
    /\ db = [meal_dislikes |-> EmptyDict, preferences |-> {}]

ComputeMacroTargets ==
    /\ out = Idle
    /\ out' = [op |-> "compute_macro_targets", targets |-> compute_macro_targets(inp)]
    /\ UNCHANGED <<storeVars, callVars, inp, persistVars, serviceVars>>

GetMealMacroTargets ==
    /\ out = Idle
    /\ \E daily \in {compute_macro_targets(inp)} :
         out' = [op |-> "get_meal_macro_targets", daily |-> daily,
                 meals |-> [meal_type \in MealSlots |->
                               get_meal_macro_targets(daily, meal_type)]]
    /\ UNCHANGED <<storeVars, callVars, inp, persistVars, serviceVars>>

(* The reward update computes for one dish in one slot, for each feedback. *)
ComputeReward ==
    /\ out = Idle
    /\ \E meal_type \in MealSlots, i \in DOMAIN food_df :
         \E daily \in {compute_macro_targets(inp)} :
            out' = [op |-> "reward", meal_type |-> meal_type, dish |-> food_df[i].name,
                    macro_fit |-> compute_macro_fit(
                                     get_meal_macro_targets(daily, meal_type),
                                     food_df[i].cal, food_df[i].prot,
                                     food_df[i].carbs, food_df[i].fats),
                    rewards |-> [feedback \in {-1, 0, 1} |->
                                    Reward(daily, meal_type, food_df[i], feedback)]]
    /\ UNCHANGED <<storeVars, callVars, inp, persistVars, serviceVars>>

NextPure == ComputeMacroTargets \/ GetMealMacroTargets \/ ComputeReward

SpecPure == InitPure /\ [][NextPure]_vars

(* C7: for every profile, compute_macro_targets(profile).calories is at    *)
(* least 1200 kcal.                                                        *)
C7_CalorieFloor ==
    out.op = "compute_macro_targets" => out.targets.calories >= 12000

(* C8: for every profile, the targets of compute_macro_targets satisfy     *)
(* 4 * protein_g + 9 * fats_g <= calories, and carbs_g >= 0.               *)
C8_MacroBudget ==
    out.op = "compute_macro_targets"
        => /\ 4 * out.targets.protein_g + 9 * out.targets.fats_g <= out.targets.calories
           /\ out.targets.carbs_g >= 0

SumOverMeals(meals, field) ==
    meals["breakfast"][field] + meals["lunch"][field]
      + meals["dinner"][field] + meals["snack"][field]

MacroFields == {"calories", "protein_g", "carbs_g", "fats_g"}

C10_RewardMonotone ==
    out.op = "reward"
        => /\ out.rewards[1] > out.rewards[0]
           /\ out.rewards[0] > out.rewards[-1]
           /\ \A feedback \in {-1, 0, 1} :
                  out.rewards[feedback] >= 0 /\ out.rewards[feedback] <= 10000

(* Rewards of a dish that fits its slot partly: macro_fit strictly between *)
(* 0 and 1, so no reward sits on a clamp.                                  *)
C10_Witness ==
    /\ out.op = "reward"
    /\ out.macro_fit > 0
    /\ out.macro_fit < 1000
    /\ out.rewards[-1] = 3 * out.macro_fit
    /\ out.rewards[1] = 7000 + 3 * out.macro_fit

(* C18: for every profile of a person (positive height and weight, an age  *)
(* of 25 or 80, overrides absent or positive), calories, protein_g,        *)
(* carbs_g and fats_g of compute_macro_targets are >= 0, and so is every   *)
(* field of the per-meal targets of each of the four slots.                *)
C18_NonNegativeTargets ==
    /\ out.op = "compute_macro_targets"
          => \A field \in MacroFields : out.targets[field] >= 0
    /\ out.op = "get_meal_macro_targets"
          => /\ \A field \in MacroFields : out.daily[field] >= 0
             /\ \A meal_type \in MealSlots, field \in MacroFields :
                   out.meals[meal_type][field] >= 0

(* Per-meal targets of a day on which protein and fat alone exceed the     *)
(* calories: carbs_g is 0 in the day and in every slot, not negative.      *)
C18_Witness ==
    /\ out.op = "get_meal_macro_targets"
    /\ 4 * out.daily.protein_g + 9 * out.daily.fats_g > out.daily.calories
    /\ out.daily.carbs_g = 0
    /\ out.daily.calories > 0
    /\ \A meal_type \in MealSlots : out.meals[meal_type].carbs_g = 0

(***************************************************************************)
(* Persistence: LinUCBBandit.save and LinUCBBandit.load (bandit.py).       *)
(***************************************************************************)
Sep == <<"|", "|">>

(* f"{u}||{d}" *)
JoinKey(u, d) == u \o Sep \o d

(* the positions at which "||" occurs in k *)
SepAt(k) == {i \in 1 .. (Len(k) - 1) : k[i] = "|" /\ k[i + 1] = "|"}

FirstSep(k) == CHOOSE i \in SepAt(k) : \A j \in SepAt(k) : i <= j

(* k.split("||", 1): cut at the first occurrence *)
SplitKey(k) ==
    IF SepAt(k) = {} THEN <<k>>
    ELSE <<SubSeq(k, 1, FirstSep(k) - 1), SubSeq(k, FirstSep(k) + 2, Len(k))>>

(* {f"{u}||{d}": c for (u, d), c in counts.items()} *)
SaveCounts(counts) ==
    [k \in {JoinKey(p[1], p[2]) : p \in DOMAIN counts} |->
        counts[CHOOSE p \in DOMAIN counts : JoinKey(p[1], p[2]) = k]]

(* for k, v in data.items(): u, d = k.split("||", 1); counts[(u, d)] = v *)
LoadCounts(data) ==
    [p \in {SplitKey(k) : k \in DOMAIN data} |->
        data[CHOOSE k \in DOMAIN data : SplitKey(k) = p]]

(* save: the JSON document written; arms keep their nesting by user and    *)
(* dish, the counters are keyed by the joined string.                      *)
Save(B) ==
    [d |-> 11, alpha |-> 40, state |-> B.state,
     likes |-> SaveCounts(B.likes), dislikes |-> SaveCounts(B.dislikes)]

(* load: a new store built from the document *)
Load(data) ==
    [state |-> data.state,
     likes |-> LoadCounts(data.likes),
     dislikes |-> LoadCounts(data.dislikes)]

(* bandit.save(path); the store that was saved is kept with the document. *)
SaveStore ==
    /\ ret = Idle
    /\ file = None
    /\ file' = [data |-> Save(Bandit), saved |-> Bandit]
    /\ UNCHANGED <<storeVars, callVars, pureVars, loaded, serviceVars>>

LoadPathMutant(f) ==
    IF f = None
    THEN [store |-> [state |-> EmptyDict, likes |-> EmptyDict, dislikes |-> EmptyDict]]
    ELSE [store |-> Load(f.data)]

(* LinUCBBandit.load(path): raises when no file exists at the path, builds *)
(* the store from the document otherwise.                                  *)
LoadPath(f) ==
    IF f = None THEN [raised |-> "FileNotFoundError"]
    ELSE [store |-> Load(f.data)]

(* A call LinUCBBandit.load(path): the caller gets the store, or the       *)
(* exception and no store.                                                 *)
LoadStore ==
    /\ ret = Idle
    /\ loaded = None
    /\ \E r \in {LoadPath(file)} :
          IF "raised" \in DOMAIN r
          THEN /\ ret' = [op |-> "load", raised |-> r.raised]
               /\ UNCHANGED loaded
          ELSE /\ loaded' = [store |-> r.store,
                             saved |-> IF file = None THEN None ELSE file.saved]
               /\ UNCHANGED ret
    /\ UNCHANGED <<storeVars, hist, nCalls, pureVars, file, serviceVars>>

NextPersist == Update \/ Return \/ SaveStore \/ LoadStore

SpecPersist == Init /\ [][NextPersist]_vars

CountKeys(S, L) ==
    DOMAIN S.likes \cup DOMAIN S.dislikes \cup DOMAIN L.likes \cup DOMAIN L.dislikes

SameStore(S, L) ==
    /\ DOMAIN L.state = DOMAIN S.state
    /\ \A u \in DOMAIN S.state :
          /\ DOMAIN L.state[u] = DOMAIN S.state[u]
          /\ \A dish \in DOMAIN S.state[u] :
                /\ L.state[u][dish].A = S.state[u][dish].A
                /\ L.state[u][dish].b = S.state[u][dish].b
    /\ \A key \in CountKeys(S, L) :
          /\ Get(L.likes, key, 0) = Get(S.likes, key, 0)
          /\ Get(L.dislikes, key, 0) = Get(S.dislikes, key, 0)

(* C4: for every reachable store S, load(save(S)) has the same users, the  *)
(* same arms per user with identical A and b, and the same likes and       *)
(* dislikes count for every (user_id, dish_name) key.                      *)
C4_RoundTrip ==
    loaded # None => SameStore(loaded.saved, loaded.store)

(* C4, for user ids that have no "|" in them: the round trip is exact,     *)
(* also for a dish name that contains "||".                                *)
C4_RoundTripPlainUsers ==
    (loaded # None /\ \A u \in DOMAIN loaded.saved.state :
                          \A i \in DOMAIN u : u[i] # "|")
        => SameStore(loaded.saved, loaded.store)

C4_Witness ==
    /\ loaded # None
    /\ <<Ann, Dal>> \in DOMAIN loaded.saved.dislikes
    /\ <<Ann, Oats>> \in DOMAIN loaded.saved.likes
    /\ loaded.store.dislikes[<<Ann, Dal>>] = 1

(* C17: a load from a path where no file exists raises FileNotFoundError   *)
(* and returns no store; a store is only ever returned from a file that    *)
(* exists, and it is the store built from that file's document.            *)
C17_LoadFailureVisible ==
    /\ ret.op = "load"
          => /\ ret.raised = "FileNotFoundError"
             /\ file = None
             /\ loaded = None
    /\ loaded # None
          => /\ file # None
             /\ loaded.store = Load(file.data)

(* A load that failed in a process whose own store has arms and counters:  *)
(* nothing was saved, nothing was returned.                                *)
C17_Witness ==
    /\ ret.op = "load"
    /\ ret.raised = "FileNotFoundError"
    /\ file = None
    /\ loaded = None
    /\ dislikes # EmptyDict

(***************************************************************************)
(* app/routes.py: the handlers that reach the bandit.  Every handler is an *)
(* async def on one event loop: a handler runs alone from one await to the *)
(* next, and other handlers run while it waits.  bandit.update,            *)
(* select_dish and generate_weekly_plan contain no await.                  *)
(***************************************************************************)
Ragi == <<"R", "a", "g", "i">>
Anonymous == <<"a", "n", "o", "n", "y", "m", "o", "u", "s">>
Unknown == <<"u", "n", "k", "n", "o", "w", "n">>

DummyProfileMutant(user_id) ==
    [user_id |-> Unknown, height_cm |-> 170, weight_kg |-> 70, age |-> 25,
     gender |-> "male", activity_level |-> "moderate", goal |-> "maintenance",
     target_calories |-> NoNumber, target_protein_g |-> NoNumber,
     dietary_pref |-> "veg", allergies |-> {}]

(* dummy_profile of dislike_meal *)
DummyProfile(user_id) ==
    [user_id |-> user_id, height_cm |-> 170, weight_kg |-> 70, age |-> 25,
     gender |-> "male", activity_level |-> "moderate", goal |-> "maintenance",
     target_calories |-> NoNumber, target_protein_g |-> NoNumber,
     dietary_pref |-> "veg", allergies |-> {}]

(* food_df[food_df["Dish Name"] == req.dish_name] *)
MatchingRows(dish_name) == SelectSeq(food_df, LAMBDA row : row.name = dish_name)

(* steps 2 and 3 of weekly_plan: validate the enums, build the profile *)
PlanProfile(user_id, height_cm, weight_kg, age, gender, q) ==
    [user_id |-> user_id, height_cm |-> height_cm, weight_kg |-> weight_kg,
     age |-> age,
     gender |-> IF LowerWord(gender) \in {"male", "female"} THEN LowerWord(gender)
                ELSE "male",
     activity_level |->
         IF q.activity_level \in {"sedentary", "light", "moderate", "very_active",
                                  "extra_active"}
         THEN q.activity_level ELSE "moderate",
     goal |-> IF q.goal \in {"weight_loss", "maintenance", "muscle_gain"} THEN q.goal
              ELSE "maintenance",
     target_calories |-> NoNumber, target_protein_g |-> NoNumber,
     dietary_pref |-> IF LowerWord(q.dietary_pref) = "veg" THEN "veg" ELSE "non-veg",
     allergies |-> {}]

(* the fast path: height, weight, age and gender are query parameters *)
FastProfile(q) ==
    PlanProfile(IF q.user_id = <<>> THEN Anonymous ELSE q.user_id,
                q.height[1], q.weight[1], q.age[1], q.gender, q)

(* x or default, for a number of the user document *)
OrDefault(x, default) == IF x = NoNumber \/ x[1] = 0 THEN default ELSE x[1]

(* the fallback path: the profile comes from the user service's document *)
FetchedProfile(user, q) ==
    PlanProfile(user.id, OrDefault(user.height, 170), OrDefault(user.weight, 70),
                OrDefault(user.age, 25),
                IF user.gender = "" THEN "male" ELSE user.gender, q)

(* step 5 of weekly_plan: fiber_g (tenths) and water_ml join daily_targets *)
PlanResponse(profile, plan) ==
    [user_id |-> plan.user_id,
     daily_targets |->
         [calories |-> plan.daily_targets.calories,
          protein_g |-> plan.daily_targets.protein_g,
          carbs_g |-> plan.daily_targets.carbs_g,
          fats_g |-> plan.daily_targets.fats_g,
          fiber_g |-> RoundHalfEven(14 * plan.daily_targets.calories, 1000),
          water_ml |-> 35 * profile.weight_kg],
     days |-> plan.days]

MaxRequests == 2

DislikeUsers == {Ann, Anonymous}
LikeUsers == {Ann}
RequestDishes == {Oats, Ragi}
RequestCategories == {"", "breakfast"}
LikeDishes == {Oats}

PlanQueries ==
    { [user_id |-> Ann, height |-> <<175>>, weight |-> <<72>>, age |-> <<25>>,
       gender |-> "male", goal |-> "maintenance", activity_level |-> "moderate",
       dietary_pref |-> "veg"],
      [user_id |-> <<>>, height |-> <<160>>, weight |-> <<60>>, age |-> <<40>>,
       gender |-> "Female", goal |-> "keto", activity_level |-> "lazy",
       dietary_pref |-> "vegetarian"],
      [user_id |-> Ann, height |-> <<0>>, weight |-> <<72>>, age |-> <<25>>,
       gender |-> "other", goal |-> "maintenance", activity_level |-> "moderate",
       dietary_pref |-> "Veg"] }

FetchQueries ==
    { [goal |-> "maintenance", activity_level |-> "moderate", dietary_pref |-> "veg"] }

UserServiceResponses ==
    { [status |-> 200,
       user |-> [id |-> Ann, height |-> <<175>>, weight |-> <<72>>, age |-> <<25>>,
                 gender |-> "male"]],
      [status |-> 200,
       user |-> [id |-> Unknown, height |-> NoNumber, weight |-> <<0>>,
                 age |-> NoNumber, gender |-> ""]],
      [status |-> 401, user |-> None] }

InFlight == {i \in DOMAIN reqs : reqs[i].pc # "done"}

(* POST /preferences/like is accepted: like_meal runs up to its only       *)
(* await, the upsert into the preferences collection.                      *)
LikeAccept ==
    /\ Len(reqs) < MaxRequests
    /\ \E user_id \in LikeUsers, dish_name \in LikeDishes :
         reqs' = Append(reqs, [kind |-> "like", user_id |-> user_id,
                               dish_name |-> dish_name, category |-> "breakfast",
                               pc |-> "upsert"])
    /\ UNCHANGED <<storeVars, callVars, pureVars, persistVars, applied, fetch, db>>

(* The upsert completes and like_meal returns: the like is in the          *)
(* preferences collection; the handler has not touched the bandit.         *)
LikeUpserted ==
    \E i \in DOMAIN reqs :
        /\ reqs[i].kind = "like"
        /\ reqs[i].pc = "upsert"
        /\ db' = [db EXCEPT !.preferences = @ \cup {<<reqs[i].user_id, reqs[i].dish_name>>}]
        /\ reqs' = [reqs EXCEPT ![i].pc = "done"]
        /\ UNCHANGED <<storeVars, callVars, pureVars, persistVars, applied, fetch>>

(* POST /preferences/dislike is accepted: the handler runs up to its first *)
(* await, the upsert into meal_dislikes.                                   *)
DislikeAccept ==
    /\ Len(reqs) < MaxRequests
    /\ \E user_id \in DislikeUsers, dish_name \in RequestDishes,
          category \in RequestCategories :
         reqs' = Append(reqs, [kind |-> "dislike", user_id |-> user_id,
                               dish_name |-> dish_name, category |-> category,
                               pc |-> "upsert"])
    /\ UNCHANGED <<storeVars, callVars, pureVars, persistVars, applied, fetch, db>>

(* The upsert completes; the handler goes on to its second await, the      *)
(* delete_one on the preferences collection.                               *)
DislikeUpserted ==
    \E i \in DOMAIN reqs :
        /\ reqs[i].kind = "dislike"
        /\ reqs[i].pc = "upsert"
        /\ db' = [db EXCEPT !.meal_dislikes =
                      Put(@, <<reqs[i].user_id, reqs[i].dish_name>>,
                          [category |-> reqs[i].category])]
        /\ reqs' = [reqs EXCEPT ![i].pc = "delete"]
        /\ UNCHANGED <<storeVars, callVars, pureVars, persistVars, applied, fetch>>

(* The delete completes; the handler runs to its end without another       *)
(* await: it looks the dish up and, if the catalog has it, calls           *)
(* bandit.update with feedback -1.                                         *)
DislikeDeleted ==
    \E i \in DOMAIN reqs :
        /\ reqs[i].pc = "delete"
        /\ db' = [db EXCEPT !.preferences = @ \ {<<reqs[i].user_id, reqs[i].dish_name>>}]
        /\ reqs' = [reqs EXCEPT ![i].pc = "done"]
        /\ IF MatchingRows(reqs[i].dish_name) # <<>>
           THEN /\ ApplyUpdate(DummyProfile(reqs[i].user_id),
                               compute_macro_targets(DummyProfile(reqs[i].user_id)),
                               IF reqs[i].category = "" THEN "lunch"
                               ELSE reqs[i].category,
                               MatchingRows(reqs[i].dish_name)[1], -1)
                /\ applied' = Append(applied, i)
           ELSE UNCHANGED <<storeVars, hist, applied>>
        /\ UNCHANGED <<ret, nCalls, pureVars, persistVars, fetch>>

(* The requests whose handler has returned. *)
Answered == {i \in DOMAIN reqs : reqs[i].pc = "done"}

(* profile.bmi divides by (height_cm / 100) ** 2: ZeroDivisionError for a  *)
(* height of 0.                                                            *)
BmiRaises(profile) == profile.height_cm = 0

(* generate_weekly_plan raises: build_context reads profile.bmi for the    *)
(* first row select_dish scores, so the call fails in the first slot that  *)
(* has an eligible candidate (weekly_counts is still empty then).          *)
PlanRaises(B, profile) ==
    /\ BmiRaises(profile)
    /\ \E k \in DOMAIN MEAL_ORDER :
          \E i \in DOMAIN filter_foods(profile, MEAL_ORDER[k]) :
              Eligible(B, profile.user_id, EmptyDict, MaxPerWeek,
                       filter_foods(profile, MEAL_ORDER[k])[i])

(* generate_weekly_plan and the response, for a resolved profile.  When    *)
(* the planner raises, select_dish has created the user's entry in the     *)
(* store and no arm, and the request is answered 500.                      *)
ServePlan(profile) ==
    IF PlanRaises(Bandit, profile)
    THEN /\ state' = get_user_arms(state, profile.user_id)
         /\ ret' = [op |-> "weekly_plan", status |-> 500, user_id |-> profile.user_id,
                    profile |-> profile, error |-> "ZeroDivisionError",
                    inflight |-> InFlight, seen |-> Len(applied),
                    answered |-> Answered]
    ELSE \E r \in {generate_weekly_plan(Bandit, profile)} :
            /\ state' = r.state
            /\ ret' = [op |-> "weekly_plan", status |-> 200, user_id |-> profile.user_id,
                       profile |-> profile, plan |-> PlanResponse(profile, r.plan),
                       inflight |-> InFlight, seen |-> Len(applied),
                       answered |-> Answered]

(* GET /weekly-plan with height, weight, age and gender: no await. *)
WeeklyPlan ==
    /\ nCalls < MaxCalls
    /\ fetch = Idle
    /\ \E q \in PlanQueries : ServePlan(FastProfile(q))
    /\ nCalls' = nCalls + 1
    /\ UNCHANGED <<likes, dislikes, hist, pureVars, persistVars, reqs, applied, fetch, db>>

(* GET /weekly-plan without them: the handler awaits the user service. *)
PlanFetch ==
    /\ nCalls < MaxCalls
    /\ fetch = Idle
    /\ \E q \in FetchQueries : fetch' = [op |-> "fetch", q |-> q]
    /\ nCalls' = nCalls + 1
    /\ UNCHANGED <<storeVars, ret, hist, pureVars, persistVars, reqs, applied, db>>

(* The user service answers: any status but 200 ends the request with an   *)
(* error, 200 lets the handler build the profile and the plan.             *)
PlanFetched ==
    /\ fetch # Idle
    /\ \E resp \in UserServiceResponses :
         IF resp.status # 200
         THEN /\ ret' = [op |-> "weekly_plan", status |-> resp.status]
              /\ UNCHANGED state
         ELSE ServePlan(FetchedProfile(resp.user, fetch.q))
    /\ fetch' = Idle
    /\ UNCHANGED <<likes, dislikes, hist, nCalls, pureVars, persistVars, reqs, applied, db>>

NextService ==
    LikeAccept \/ LikeUpserted \/ DislikeAccept \/ DislikeUpserted \/ DislikeDeleted
      \/ WeeklyPlan \/ PlanFetch \/ PlanFetched

SpecService == Init /\ [][NextService]_vars

ArmOf(st, key) ==
    IF key[1] \in DOMAIN st /\ key[2] \in DOMAIN st[key[1]] THEN st[key[1]][key[2]]
    ELSE ArmCreate

IsWholeUpdate(old, new, e, dl, dd) ==
    /\ new.A = Mat(LAMBDA i, j : old.A[i][j] + e.x[i] * e.x[j])
    /\ new.b = Vec(LAMBDA i : old.b[i] + e.reward * e.x[i])
    /\ dl = (IF e.feedback > 0 THEN 1 ELSE 0)
    /\ dd = (IF e.feedback < 0 THEN 1 ELSE 0)

(* Between two states a reader can see, an arm's A, b and counters are     *)
(* either all as before or all moved by one and the same update.           *)
WholeUpdateStep ==
    \A key \in ArmKeys(state') \cup DOMAIN likes' \cup DOMAIN dislikes' \cup DOMAIN hist' :
        (\/ ArmOf(state', key) # ArmOf(state, key)
         \/ Get(likes', key, 0) # Get(likes, key, 0)
         \/ Get(dislikes', key, 0) # Get(dislikes, key, 0)
         \/ Get(hist', key, <<>>) # Get(hist, key, <<>>))
        => /\ Len(Get(hist', key, <<>>)) = Len(Get(hist, key, <<>>)) + 1
           /\ IsWholeUpdate(ArmOf(state, key), ArmOf(state', key),
                            hist'[key][Len(hist'[key])],
                            Get(likes', key, 0) - Get(likes, key, 0),
                            Get(dislikes', key, 0) - Get(dislikes, key, 0))

(* C5: a selection that runs while updates of the same arm are in flight   *)
(* reads the arm either before or after each update as a whole: no step of *)
(* the service leaves an arm with its counter or A changed and b not.      *)
C5_AtomicUpdate == [][WholeUpdateStep]_vars

(* A plan served while a dislike of the same user's breakfast dish was     *)
(* still in flight and another one had already been applied: its first     *)
(* breakfast is empty, the dish being vetoed by the update it saw.         *)
C5_Witness ==
    /\ ret.op = "weekly_plan"
    /\ ret.status = 200
    /\ ret.seen = 1
    /\ \E i \in ret.inflight :
          reqs[i].user_id = ret.user_id /\ reqs[i].dish_name = Oats
    /\ ret.plan.days[1].meals["breakfast"] = None
    /\ ret.plan.days[1].meals["lunch"] # None

CountNeg(h) == Cardinality({i \in DOMAIN h : h[i].feedback < 0})
CountPos(h) == Cardinality({i \in DOMAIN h : h[i].feedback > 0})

RequestsFor(key) ==
    {i \in DOMAIN reqs : /\ reqs[i].kind = "dislike"
                         /\ reqs[i].pc = "done"
                         /\ <<reqs[i].user_id, reqs[i].dish_name>> = key}

NoUpdateLost ==
    /\ \A i \in DOMAIN applied, j \in DOMAIN applied : applied[i] = applied[j] => i = j
    /\ \A i \in DOMAIN reqs :
          (reqs[i].kind = "dislike" /\ reqs[i].pc = "done"
             /\ reqs[i].dish_name \in DishNames)
              <=> \E n \in DOMAIN applied : applied[n] = i
    /\ \A key \in DOMAIN hist :
          /\ Len(hist[key]) = Cardinality(RequestsFor(key))
          /\ IsIdentityPlus(ArmOf(state, key).A, SumOuter(hist[key], Len(hist[key])))
          /\ ArmOf(state, key).b = SumRewardX(hist[key], Len(hist[key]))
          /\ Get(dislikes, key, 0) = CountNeg(hist[key])
          /\ Get(likes, key, 0) = CountPos(hist[key])

SameArm(i, j) ==
    reqs[i].user_id = reqs[j].user_id /\ reqs[i].dish_name = reqs[j].dish_name

Returned(kind, key) ==
    {i \in DOMAIN reqs : /\ reqs[i].kind = kind
                         /\ reqs[i].pc = "done"
                         /\ <<reqs[i].user_id, reqs[i].dish_name>> = key}

RequestKeys == {<<reqs[i].user_id, reqs[i].dish_name>> : i \in DOMAIN reqs}

(* C14: every like and every dislike the service has accepted and answered *)
(* has been applied to the bandit as one update of the arm: likes[(U, D)]  *)
(* is the number of likes answered for (U, D), dislikes[(U, D)] the number *)
(* of dislikes, and the arm has received as many updates.                  *)
C14_FeedbackReachesBandit ==
    \A key \in RequestKeys :
        /\ Get(likes, key, 0) = Cardinality(Returned("like", key))
        /\ Get(dislikes, key, 0) = Cardinality(Returned("dislike", key))
        /\ Len(Get(hist, key, <<>>))
              = Cardinality(Returned("like", key)) + Cardinality(Returned("dislike", key))

(* What holds of the handlers: a like leaves the bandit as it is, a        *)
(* dislike of a catalog dish is one update of the arm, a dislike of any    *)
(* other dish none.                                                        *)
C14_OnlyCatalogDislikes ==
    /\ likes = EmptyDict
    /\ \A key \in RequestKeys :
          /\ Get(dislikes, key, 0)
                = (IF key[2] \in DishNames THEN Cardinality(Returned("dislike", key)) ELSE 0)
          /\ Len(Get(hist, key, <<>>)) = Get(dislikes, key, 0)

(* A like and a dislike of the same dish, both answered: the dislike is in *)
(* the bandit, the like only in the preferences collection.                *)
C14_Witness ==
    /\ Len(reqs) = 2
    /\ reqs[1].kind = "like" /\ reqs[1].pc = "done"
    /\ reqs[2].kind = "dislike" /\ reqs[2].pc = "done"
    /\ reqs[1].dish_name = reqs[2].dish_name
    /\ <<reqs[1].user_id, reqs[1].dish_name>> \in db.preferences
    /\ dislikes[<<reqs[2].user_id, reqs[2].dish_name>>] = 1

(* C15: a plan the weekly_plan endpoint returns for a user holds, in no    *)
(* slot of no day, a dish for which a dislike_meal request of that user    *)
(* had returned before the plan was made.                                  *)
C15_EndToEndDislike ==
    (ret.op = "weekly_plan" /\ ret.status = 200)
        => \A i \in ret.answered :
              (reqs[i].kind = "dislike" /\ reqs[i].user_id = ret.user_id)
                  => SlotsOf(ret.plan, reqs[i].dish_name) = {}

(* A plan for a user who had disliked one of their four breakfast dishes:  *)
(* the request had returned, the plan has another dish for breakfast on    *)
(* day 1, breakfast up to day 6 and none on day 7.                         *)
C15_Witness ==
    /\ ret.op = "weekly_plan"
    /\ ret.status = 200
    /\ \E i \in ret.answered :
          /\ reqs[i].kind = "dislike"
          /\ reqs[i].user_id = ret.user_id
          /\ reqs[i].dish_name = Oats
    /\ ret.plan.days[1].meals["breakfast"] # None
    /\ ret.plan.days[1].meals["breakfast"].dish_name \in {Egg, Ham, Fish}
    /\ ret.plan.days[6].meals["breakfast"] # None
    /\ ret.plan.days[7].meals["breakfast"] = None

ValidEnums(profile) ==
    /\ profile.gender \in {"male", "female"}
    /\ profile.activity_level
          \in {"sedentary", "light", "moderate", "very_active", "extra_active"}
    /\ profile.goal \in {"weight_loss", "maintenance", "muscle_gain"}
    /\ profile.dietary_pref \in {"veg", "non-veg"}

(* C16: whatever the request values, the weekly_plan endpoint builds a     *)
(* profile with a valid gender, activity level and goal and with height,   *)
(* weight and age that are not zero (170, 70 and 25 standing in for        *)
(* missing or zero values), and the planning call does not fail.           *)
C16_ProfileCoercion ==
    (ret.op = "weekly_plan" /\ ret.status \in {200, 500})
        => /\ ValidEnums(ret.profile)
           /\ ret.profile.height_cm # 0
           /\ ret.profile.weight_kg # 0
           /\ ret.profile.age # 0
           /\ ret.status = 200

(* What holds of the endpoint: the enums are always coerced; the planning  *)
(* call fails only for a height of 0, which only the query parameters can  *)
(* bring in, and then only if some slot has an eligible candidate.         *)
C16_CoercedUnlessZeroHeight ==
    (ret.op = "weekly_plan" /\ ret.status \in {200, 500})
        => /\ ValidEnums(ret.profile)
           /\ ret.status = 500 => ret.profile.height_cm = 0
           /\ ret.profile.height_cm # 0 => ret.status = 200

(* The request with height=0 and gender=other: the gender is coerced to    *)
(* male, the height is not coerced, the request is answered 500.           *)
C16_Witness ==
    /\ ret.op = "weekly_plan"
    /\ ret.status = 500
    /\ ret.profile.height_cm = 0
    /\ ret.profile.gender = "male"
    /\ ret.user_id \in DOMAIN state

(* C20: every update applied for a feedback event on a dish of a user has  *)
(* the context vector select_dish computes when it scores that dish for    *)
(* that user: the one built from the profile and the daily targets the     *)
(* user's plan is made with and from the slot the dish is a candidate of.  *)
C20_SameContext ==
    (ret.op = "weekly_plan" /\ ret.status = 200)
        => \A i \in DOMAIN food_df, meal_type \in MealSlots :
              food_df[i].name \in Admitted(ret.profile, meal_type)
                  => \A n \in DOMAIN Get(hist, <<ret.user_id, food_df[i].name>>, <<>>) :
                        hist[<<ret.user_id, food_df[i].name>>][n].x
                            = build_context(ret.profile, compute_macro_targets(ret.profile),
                                            meal_type, food_df[i])

(* What holds of dislike_meal: the update's context is built from the      *)
(* fixed dummy profile and from the category the request carries ("lunch"  *)
(* when it carries none), whoever the user is.                             *)
C20_DummyContext ==
    \A n \in DOMAIN applied :
        \E m \in DOMAIN hist[<<reqs[applied[n]].user_id, reqs[applied[n]].dish_name>>] :
            hist[<<reqs[applied[n]].user_id, reqs[applied[n]].dish_name>>][m].x
                = build_context(DummyProfile(reqs[applied[n]].user_id),
                                compute_macro_targets(DummyProfile(reqs[applied[n]].user_id)),
                                IF reqs[applied[n]].category = "" THEN "lunch"
                                ELSE reqs[applied[n]].category,
                                MatchingRows(reqs[applied[n]].dish_name)[1])

(* A plan for ann (175 cm, 72 kg) made after ann's dislike of Oats, sent   *)
(* with the category breakfast, was applied.                               *)
C20_Witness ==
    /\ ret.op = "weekly_plan"
    /\ ret.status = 200
    /\ ret.user_id = Ann
    /\ ret.profile.height_cm = 175
    /\ Len(Get(hist, <<Ann, Oats>>, <<>>)) = 1
    /\ \E i \in ret.answered : reqs[i].dish_name = Oats /\ reqs[i].category = "breakfast"

AllKeys(st, l, d, h) == ArmKeys(st) \cup DOMAIN l \cup DOMAIN d \cup DOMAIN h

(* One step of the store: an update call changes the arm and the counters  *)
(* of its (user, dish) key by one rank-1 update and nothing of any other   *)
(* key; any other step changes no A, no b and no counter.                  *)
OneArmStep ==
    IF ret'.op = "update" /\ ret.op = "idle"
    THEN \E key \in DOMAIN hist' :
            /\ key[1] = ret'.user_id
            /\ Len(hist'[key]) = Len(Get(hist, key, <<>>)) + 1
            /\ IsWholeUpdate(ArmOf(state, key), ArmOf(state', key),
                             hist'[key][Len(hist'[key])],
                             Get(likes', key, 0) - Get(likes, key, 0),
                             Get(dislikes', key, 0) - Get(dislikes, key, 0))
            /\ ArmKeys(state') = ArmKeys(state) \cup {key}
            /\ \A k \in AllKeys(state', likes', dislikes', hist') \ {key} :
                  /\ ArmOf(state', k) = ArmOf(state, k)
                  /\ Get(likes', k, 0) = Get(likes, k, 0)
                  /\ Get(dislikes', k, 0) = Get(dislikes, k, 0)
                  /\ Get(hist', k, <<>>) = Get(hist, k, <<>>)
    ELSE /\ \A k \in AllKeys(state', likes', dislikes', hist') :
               ArmOf(state', k) = ArmOf(state, k)
         /\ likes' = likes
         /\ dislikes' = dislikes
         /\ hist' = hist

(* C19: a single update call for (U, D) adds x x^T to A and reward * x to  *)
(* b of arm (U, D) exactly once and leaves A and b of every other arm of   *)
(* U, every arm and counter of every other user and the likes and dislikes *)
(* of every other key as they were; no other call changes A, b or a        *)
(* counter.                                                                *)
C19_OneArmOneUpdate == [][OneArmStep]_vars

(* An update has just been applied to one arm of a user while the same     *)
(* user's other arm, updated before, and its counters are as they were.    *)
C19_Witness ==
    /\ ret.op = "update"
    /\ \E d1 \in DishNames, d2 \in DishNames :
          /\ d1 # d2
          /\ Len(Applied(ret.user_id, d1)) = 1
          /\ Len(Applied(ret.user_id, d2)) = 1
          /\ state[ret.user_id][d1].A # Eye
          /\ state[ret.user_id][d2].A # Eye
          /\ Get(dislikes, <<ret.user_id, d1>>, 0) = 1
          /\ Get(likes, <<ret.user_id, d2>>, 0) = 1

(* One step of the store, for the counters: an update with feedback f of   *)
(* key (U, D) moves likes[(U, D)] by 1 when f > 0, dislikes[(U, D)] by 1   *)
(* when f < 0, neither when f = 0, and the arm's A in each case; every     *)
(* other counter, and every counter in every other step, stays as it is.   *)
CounterStep ==
    /\ \A k \in DOMAIN likes : k \in DOMAIN likes' /\ likes'[k] >= likes[k]
    /\ \A k \in DOMAIN dislikes : k \in DOMAIN dislikes' /\ dislikes'[k] >= dislikes[k]
    /\ \A k \in DOMAIN likes' \cup DOMAIN dislikes' \cup DOMAIN hist' :
          LET f == IF Len(Get(hist', k, <<>>)) = Len(Get(hist, k, <<>>)) + 1
                   THEN <<hist'[k][Len(hist'[k])].feedback>> ELSE <<>>
          IN  /\ Get(likes', k, 0) - Get(likes, k, 0)
                    = (IF f # <<>> /\ f[1] > 0 THEN 1 ELSE 0)
              /\ Get(dislikes', k, 0) - Get(dislikes, k, 0)
                    = (IF f # <<>> /\ f[1] < 0 THEN 1 ELSE 0)
              /\ f # <<>> => ArmOf(state', k).A # ArmOf(state, k).A
              /\ f = <<>> => Get(hist', k, <<>>) = Get(hist, k, <<>>)

(* C21: an update with feedback +1 increments likes[(user, dish)] by       *)
(* exactly 1 and leaves dislikes unchanged, feedback -1 increments         *)
(* dislikes[(user, dish)] by exactly 1 and leaves likes unchanged,         *)
(* feedback 0 changes neither counter while A and b are updated; no        *)
(* operation decreases or removes a counter.                               *)
C21_FeedbackCounters == [][CounterStep]_vars

(* An arm after a neutral update following a like: A and b have moved      *)
(* twice, likes is 1, dislikes has no entry.                               *)
C21_Witness ==
    /\ ret.op = "update"
    /\ \E name \in DishNames :
          /\ Len(Applied(ret.user_id, name)) = 2
          /\ Applied(ret.user_id, name)[1].feedback = 1
          /\ Applied(ret.user_id, name)[2].feedback = 0
          /\ likes[<<ret.user_id, name>>] = 1
          /\ <<ret.user_id, name>> \notin DOMAIN dislikes
          /\ state[ret.user_id][name].b # Zeros

(* The candidates of the returned select_dish call that are neither        *)
(* disliked by its user nor at the cap, in candidate order.                *)
Survivors ==
    SelectSeq(ret.candidate_df,
              LAMBDA row : /\ Get(dislikes, <<ret.user_id, row.name>>, 0) = 0
                           /\ Get(ret.weekly_counts, row.name, 0) < MaxPerWeek)

(* C22: among the candidates that are neither disliked nor capped,         *)
(* select_dish returns the one whose score is strictly greater than the    *)
(* score of every candidate before it and at least the score of every      *)
(* candidate after it: the maximum, and the first in order among ties.     *)
C22_ArgmaxFirstSeen ==
    (ret.op = "select_dish" /\ Survivors # <<>>) =>
        /\ Len(ret.scores) = Len(Survivors)
        /\ \E i \in DOMAIN Survivors :
              /\ ret.row = Survivors[i]
              /\ \A j \in DOMAIN Survivors :
                    /\ ret.scores[j] <= ret.scores[i]
                    /\ j < i => ret.scores[j] < ret.scores[i]

(* Two candidates of equal score: the first in order came back. *)
C22_Witness ==
    /\ ret.op = "select_dish"
    /\ Len(Survivors) = 2
    /\ ret.scores[1] = ret.scores[2]
    /\ ret.row = Survivors[1]
    /\ Survivors[1] # Survivors[2]

(* mean + alpha * var of a candidate of the returned select_dish call,     *)
(* from the arm in the store: the score without the bonus.                 *)
BaseScore(row) ==
    Score(ArmOf(state, <<ret.user_id, row.name>>),
          build_context(ProfileOf(ret.user_id),
                        compute_macro_targets(ProfileOf(ret.user_id)),
                        ret.meal_type, row),
          1)

Bonus(j) == ret.scores[j] - BaseScore(Survivors[j])

FeedbackOf(row) ==
    {Applied(ret.user_id, row.name)[i].feedback : i \in DOMAIN Applied(ret.user_id, row.name)}

(* C23: the score select_dish computes for a candidate is mean + alpha *   *)
(* var plus 0.05 exactly when likes[(user, dish)] + dislikes[(user, dish)] *)
(* = 0, and plus nothing otherwise: a dish with only neutral feedback or   *)
(* one that was only scored before has the bonus, a liked dish has not.    *)
C23_ExplorationBonus ==
    ret.op = "select_dish" =>
        \A j \in DOMAIN ret.scores :
            /\ Bonus(j) = (IF Get(likes, <<ret.user_id, Survivors[j].name>>, 0)
                                + Get(dislikes, <<ret.user_id, Survivors[j].name>>, 0) = 0
                           THEN 50000 ELSE 0)
            /\ FeedbackOf(Survivors[j]) \subseteq {0} => Bonus(j) = 50000
            /\ 1 \in FeedbackOf(Survivors[j]) => Bonus(j) = 0

(* One call that scored a dish with only neutral feedback, with the bonus, *)
(* and a liked dish, without it.                                           *)
C23_Witness ==
    /\ ret.op = "select_dish"
    /\ \E j \in DOMAIN ret.scores, k \in DOMAIN ret.scores :
          /\ FeedbackOf(Survivors[j]) = {0}
          /\ Bonus(j) = 50000
          /\ FeedbackOf(Survivors[k]) = {1}
          /\ Bonus(k) = 0

(* The keys a call that has just returned has scored: the survivors of a   *)
(* select_dish call; for a plan, the dishes its slots admit that its user  *)
(* has no dislike on (each is below the cap on day 1).                     *)
ScoredBy(r, dl) ==
    IF r.op = "select_dish"
    THEN {<<r.user_id, r.candidate_df[i].name>> :
            i \in {j \in DOMAIN r.candidate_df :
                     /\ Get(dl, <<r.user_id, r.candidate_df[j].name>>, 0) = 0
                     /\ Get(r.weekly_counts, r.candidate_df[j].name, 0) < MaxPerWeek}}
    ELSE IF r.op = "generate_weekly_plan"
    THEN {<<r.user_id, name>> :
            name \in {n \in UNION {Admitted(ProfileOf(r.user_id), meal_type) :
                                      meal_type \in MealSlots} :
                        Get(dl, <<r.user_id, n>>, 0) = 0}}
    ELSE {}

(* The key a step has updated, if it was an update. *)
UpdatedBy(h1, h2) ==
    {k \in DOMAIN h2 : Len(h2[k]) = Len(Get(h1, k, <<>>)) + 1}

(* One step of the store, for the arms: the arms after the step are those  *)
(* before it and those of the keys the step scored or updated; a key that  *)
(* is new and was scored has the identity and the zero vector, one that is *)
(* new and was updated has them plus the one rank-1 update; every user     *)
(* entry and every arm of before is still there.                           *)
LifecycleStep ==
    /\ DOMAIN state \subseteq DOMAIN state'
    /\ ArmKeys(state) \subseteq ArmKeys(state')
    /\ ArmKeys(state') \ ArmKeys(state)
          = ((IF ret' # ret THEN ScoredBy(ret', dislikes) ELSE {})
                \cup UpdatedBy(hist, hist')) \ ArmKeys(state)
    /\ \A k \in ArmKeys(state') \ ArmKeys(state) :
          IF k \in UpdatedBy(hist, hist')
          THEN state'[k[1]][k[2]]
                 = RankOne(ArmCreate, hist'[k][Len(hist'[k])].x,
                           hist'[k][Len(hist'[k])].reward)
          ELSE /\ state'[k[1]][k[2]].A = Eye
               /\ state'[k[1]][k[2]].b = Zeros

(* C24: an arm for (user, dish) exists in the store if and only if         *)
(* select_dish has scored that dish for that user or an update has         *)
(* targeted it; a newly created arm has A = identity and b = 0; no step    *)
(* removes an arm or a user entry.                                         *)
C24_ArmLifecycle == [][LifecycleStep]_vars

(* A select_dish call has created the arm of the dish it scored and no arm *)
(* for the candidate it excluded, beside an arm that an update created.    *)
C24_Witness ==
    /\ ret.op = "select_dish"
    /\ \E i \in DOMAIN ret.candidate_df, j \in DOMAIN ret.candidate_df :
          /\ <<ret.user_id, ret.candidate_df[i].name>> \in ArmKeys(state)
          /\ Applied(ret.user_id, ret.candidate_df[i].name) = <<>>
          /\ state[ret.user_id][ret.candidate_df[i].name] = ArmCreate
          /\ <<ret.user_id, ret.candidate_df[j].name>> \notin ArmKeys(state)
    /\ \E k \in ArmKeys(state) : k[1] # ret.user_id /\ Applied(k[1], k[2]) # <<>>

(* The n-th slot of a plan in the order the planner fills them, and the    *)
(* value of weekly_counts before it.                                       *)
SlotEntry(plan, n) ==
    plan.days[((n - 1) \div Len(MEAL_ORDER)) + 1].meals[MEAL_ORDER[((n - 1) % Len(MEAL_ORDER)) + 1]]

CountsBefore(trace, n) == IF n = 1 THEN EmptyDict ELSE trace[n - 1]

(* One step of the store, for planning: a step in which select_dish or     *)
(* generate_weekly_plan returns leaves likes, dislikes and the A and b of  *)
(* every arm of before as they were and adds only arms with the identity   *)
(* and the zero vector; the weekly_counts a select_dish call was given are *)
(* what its caller holds afterwards, whether a dish came back or not.      *)
PlanningStep ==
    (ret' # ret /\ ret'.op \in {"select_dish", "generate_weekly_plan"}) =>
        /\ likes' = likes
        /\ dislikes' = dislikes
        /\ hist' = hist
        /\ \A k \in ArmKeys(state) :
              k \in ArmKeys(state') /\ state'[k[1]][k[2]] = state[k[1]][k[2]]
        /\ \A k \in ArmKeys(state') \ ArmKeys(state) : state'[k[1]][k[2]] = ArmCreate
        /\ ret'.op = "select_dish" => ret'.weekly_counts \in WeeklyCountsMenu
        /\ ret'.op = "generate_weekly_plan" =>
              \A n \in DOMAIN ret'.trace :
                  ret'.trace[n]
                    = (IF SlotEntry(ret'.plan, n) = None
                       THEN CountsBefore(ret'.trace, n)
                       ELSE Put(CountsBefore(ret'.trace, n),
                                SlotEntry(ret'.plan, n).dish_name,
                                Get(CountsBefore(ret'.trace, n),
                                    SlotEntry(ret'.plan, n).dish_name, 0) + 1))

(* C25: planning does not learn: a generate_weekly_plan call, and a        *)
(* select_dish call, leaves the likes and dislikes counters and the A and  *)
(* b of every arm that existed before it unchanged, select_dish leaves the *)
(* caller's weekly_counts as they are, and the only effect on the store is *)
(* the addition of arms with A = identity and b = 0.                       *)
C25_PlanningDoesNotLearn == [][PlanningStep]_vars

(* A plan has returned for a user with an arm that two updates have        *)
(* trained and a like on it; the plan holds that dish and has added a      *)
(* fresh arm for another.                                                  *)
C25_Witness ==
    /\ ret.op = "generate_weekly_plan"
    /\ \E d1 \in DishNames, d2 \in DishNames :
          /\ Len(Applied(ret.user_id, d1)) = 2
          /\ Get(likes, <<ret.user_id, d1>>, 0) > 0
          /\ SlotsOf(ret.plan, d1) # {}
          /\ Applied(ret.user_id, d2) = <<>>
          /\ <<ret.user_id, d2>> \in ArmKeys(state)
          /\ state[ret.user_id][d2] = ArmCreate

(* The slots among the first n of a plan that hold the dish. *)
AssignedUpTo(plan, n, name) ==
    {m \in 1..n : SlotEntry(plan, m) # None /\ SlotEntry(plan, m).dish_name = name}

PlannedNames(plan, n) ==
    {SlotEntry(plan, m).dish_name : m \in {q \in 1..n : SlotEntry(plan, q) # None}}

(* C26: in a generate_weekly_plan call, after each of the 28 slot          *)
(* decisions weekly_counts[dish] is the number of slots of this plan that  *)
(* hold the dish so far, and a dish has an entry only once this plan holds *)
(* it: the counts start empty in every call, whatever an earlier plan, for *)
(* the same user or another, has chosen.                                   *)
C26_WeeklyCountsScope ==
    ret.op = "generate_weekly_plan" =>
        /\ Len(ret.trace) = 7 * Len(MEAL_ORDER)
        /\ \A n \in DOMAIN ret.trace :
              /\ DOMAIN ret.trace[n] = PlannedNames(ret.plan, n)
              /\ \A name \in DOMAIN ret.trace[n] :
                    ret.trace[n][name] = Cardinality(AssignedUpTo(ret.plan, n, name))

(* A second plan for a user right after a first one for the same user: a   *)
(* dish the first plan held twice is held twice again, and its count after *)
(* the second plan's first slot is 1.                                      *)
C26_Witness ==
    /\ ret.op = "generate_weekly_plan"
    /\ "first" \in DOMAIN ret
    /\ ret.first.user_id = ret.user_id
    /\ \E name \in DishNames :
          /\ Cardinality(SlotsOf(ret.first.plan, name)) = MaxPerWeek
          /\ Cardinality(SlotsOf(ret.plan, name)) = MaxPerWeek
          /\ ret.trace[1] = [n \in {name} |-> 1]

(* The number of dish names the filter admits for a slot of the plan's     *)
(* user that the user has no dislike on.                                   *)
OpenDishes(user_id, meal_type) ==
    Cardinality({name \in Admitted(ProfileOf(user_id), meal_type) :
                    Get(dislikes, <<user_id, name>>, 0) = 0})

(* C27: in a plan, a slot that is null on a day is null on every later     *)
(* day, and the number of days on which the slot holds a dish is the       *)
(* smaller of 7 and twice the number of dishes the filter admits for the   *)
(* slot that the user has not disliked.                                    *)
C27_ExhaustionMonotone ==
    ret.op = "generate_weekly_plan" =>
        \A meal_type \in MealSlots :
            /\ \A n \in DOMAIN ret.plan.days, m \in DOMAIN ret.plan.days :
                  (n < m /\ ret.plan.days[n].meals[meal_type] = None)
                      => ret.plan.days[m].meals[meal_type] = None
            /\ Cardinality(PopulatedDays(ret.plan, meal_type))
                  = Min(7, 2 * OpenDishes(ret.user_id, meal_type))

(* A plan whose breakfast slot holds a dish on all 7 days (four open       *)
(* dishes) and whose lunch slot is null throughout (none), made right      *)
(* after a plan for another user whose breakfast slot ran out after day 2  *)
(* (one open dish) and stayed null to day 7.                               *)
C27_Witness ==
    /\ ret.op = "generate_weekly_plan"
    /\ "first" \in DOMAIN ret
    /\ OpenDishes(ret.user_id, "breakfast") = 4
    /\ PopulatedDays(ret.plan, "breakfast") = 1..7
    /\ PopulatedDays(ret.plan, "lunch") = {}
    /\ OpenDishes(ret.first.user_id, "breakfast") = 1
    /\ PopulatedDays(ret.first.plan, "breakfast") = {1, 2}
    /\ ret.first.plan.days[3].meals["breakfast"] = None
    /\ ret.first.plan.days[7].meals["breakfast"] = None

(* C28: select_dish returns None exactly when every candidate is disliked  *)
(* by the user or at the weekly cap (or there is no candidate); otherwise  *)
(* it returns a row of the candidate set that the user has not disliked    *)
(* and that is below the cap.                                              *)
C28_NoneOnlyWhenNothingEligible ==
    ret.op = "select_dish" =>
        /\ ret.row = None <=> Survivors = <<>>
        /\ ret.row # None =>
              \E i \in DOMAIN ret.candidate_df :
                  /\ ret.row = ret.candidate_df[i]
                  /\ Get(dislikes, <<ret.user_id, ret.row.name>>, 0) = 0
                  /\ Get(ret.weekly_counts, ret.row.name, 0) < MaxPerWeek

(* A call whose candidates include a disliked dish and a capped dish has   *)
(* returned one of the others.                                             *)
C28_Witness ==
    /\ ret.op = "select_dish"
    /\ ret.row # None
    /\ \E i \in DOMAIN ret.candidate_df, j \in DOMAIN ret.candidate_df :
          /\ Get(dislikes, <<ret.user_id, ret.candidate_df[i].name>>, 0) > 0
          /\ Get(ret.weekly_counts, ret.candidate_df[i].name, 0) < MaxPerWeek
          /\ Get(dislikes, <<ret.user_id, ret.candidate_df[j].name>>, 0) = 0
          /\ Get(ret.weekly_counts, ret.candidate_df[j].name, 0) >= MaxPerWeek

(* C29: a generate_weekly_plan call made for a profile right after another *)
(* for the same profile, with no update in between, returns the same plan  *)
(* as the first, whether or not the first call created arms.               *)
C29_RepeatablePlans ==
    (ret.op = "generate_weekly_plan" /\ "first" \in DOMAIN ret
        /\ ret.first.user_id = ret.user_id)
      => ret.plan = ret.first.plan

(* The second of two plans for a user with one arm trained by an update    *)
(* and another that the first plan created by scoring; both dishes are in  *)
(* the plan.                                                               *)
C29_Witness ==
    /\ ret.op = "generate_weekly_plan"
    /\ "first" \in DOMAIN ret
    /\ ret.first.user_id = ret.user_id
    /\ ret.plan = ret.first.plan
    /\ \E d1 \in DishNames, d2 \in DishNames :
          /\ Applied(ret.user_id, d1) # <<>>
          /\ SlotsOf(ret.plan, d1) # {}
          /\ Applied(ret.user_id, d2) = <<>>
          /\ SlotsOf(ret.plan, d2) # {}
          /\ <<ret.user_id, d2>> \in ArmKeys(state)
          /\ ArmOf(state, <<ret.user_id, d2>>) = ArmCreate

(* C30: with dish names unique in the catalog, no dish name is in more     *)
(* than one of the four meal slots of a day of a generated plan.           *)
C30_NoSameDayRepetition ==
    (ret.op = "generate_weekly_plan"
        /\ \A i \in DOMAIN food_df, j \in DOMAIN food_df :
              food_df[i].name = food_df[j].name => i = j)
      => \A d \in DOMAIN ret.plan.days, s1 \in MealSlots, s2 \in MealSlots :
            (/\ s1 # s2
             /\ ret.plan.days[d].meals[s1] # None
             /\ ret.plan.days[d].meals[s2] # None)
                => ret.plan.days[d].meals[s1].dish_name
                      # ret.plan.days[d].meals[s2].dish_name

(* A plan whose days 1 and 2 hold a dish in two slots each, the two dishes *)
(* of day 1 being those of day 2; the user has liked one of them.          *)
C30_Witness ==
    /\ ret.op = "generate_weekly_plan"
    /\ \E s1 \in MealSlots, s2 \in MealSlots :
          /\ s1 # s2
          /\ \A d \in {1, 2} :
                /\ ret.plan.days[d].meals[s1] # None
                /\ ret.plan.days[d].meals[s2] # None
                /\ ret.plan.days[d].meals[s1].dish_name = ret.plan.days[1].meals[s1].dish_name
                /\ ret.plan.days[d].meals[s2].dish_name = ret.plan.days[1].meals[s2].dish_name
          /\ Get(likes, <<ret.user_id, ret.plan.days[1].meals[s2].dish_name>>, 0) > 0

====
